---- MODULE Spec2Model ----
(***************************************************************************)
(* The resumable chunked upload of dshare (share/views.py), the share     *)
(* slot it delivers to and the accounts (registration, verification of the *)
(* email address, login by password or PIN), as a state machine.           *)
(*                                                                         *)
(* Every request handler is a process: it runs from its first line to its  *)
(* response, one step per access to the registry table, the chunk          *)
(* directory, the temporary file, the share row or the file storage.  The  *)
(* computation between two accesses belongs to the step of the access that *)
(* follows it.                                                             *)
(*                                                                         *)
(* The specifications differ in the workers at work, in the clients and in *)
(* whether the clock advances:                                             *)
(*                                                                         *)
(*   Spec, SpecOwners   one worker (the setting of the repository's tests) *)
(*   SpecClock          one worker while the clock advances                *)
(*   SpecConc           two workers, their steps interleave at every       *)
(*                      access                                             *)
(*   SpecReader         one worker uploads, another serves reads of the    *)
(*                      slot in between its steps                          *)
(*   SpecFaults         one worker, the storage and the database may       *)
(*                      refuse what complete delivers                      *)
(*   SpecChunks         the arithmetic of api_upload_start alone           *)
(*   SpecSlot           one worker serves the slots and an upload in       *)
(*                      chunks while the clock advances                    *)
(*   SpecScopes         one worker serves the slots of three scopes        *)
(*   SpecSlotConc       two workers serve the public slot at once, the     *)
(*                      clock advances between the requests                *)
(*   SpecSweep          two workers serve uploads at once while the clock  *)
(*                      advances past the time to live of the sessions     *)
(*   SpecAuth           one worker serves the requests of one browser to   *)
(*                      the account handlers while the clock advances      *)
(*   SpecGap            one worker sweeps for a start while another        *)
(*                      sends chunks and completes an upload of two chunks *)
(*   SpecLive           a client repeats start, the missing chunks and     *)
(*                      complete under fair scheduling while another       *)
(*                      caller's starts sweep; its session is never older  *)
(*                      than the time to live                              *)
(*                                                                         *)
(* Session ids are well-formed UUIDs; the rate limiter of the anonymous    *)
(* upload and clear paths is outside the model, the counters of            *)
(* api_auth_register and api_auth_password_login are in it.                *)
(***************************************************************************)
EXTENDS Integers, Sequences, FiniteSets, TLC

(***************************************************************************)
(* Bounds of the model.                                                    *)
(***************************************************************************)
\* The clock runs from 0 to MaxTime.
MaxTime == 2
\* How many upload sessions are ever created (uuid4 never repeats an id).
MaxSessions == 2
\* The longest chunk body a client sends.
MaxBody == 2
\* How many blobs the file storage holds at once.
MaxBlobs == 3
\* How many upload sessions hold chunks, or are being sent one, at once.
MaxFilled == 1
\* How many upload sessions are created while requests are served at once.
ConcSessions == 1
\* The largest size and the largest chunk size of the start requests whose
\* number of chunks is computed for its own sake.
MaxSize == 27
MaxChunkSize == 11
\* The clock runs from 0 to MaxSlotTime where the share slots are served.
MaxSlotTime == 3
\* How many upload sessions are created where the share slots are served.
SlotSessions == 1
\* How many email verification tokens are ever created
\* (secrets.token_urlsafe never repeats a token).
MaxTokens == 2
\* The failed logins and the registrations after which the rate limiter
\* refuses a client (50 and 10 in the source, scaled down).
LoginFailLimit == 2
RegisterLimit == 2

(***************************************************************************)
(* Settings (django.conf.settings), scaled down.                           *)
(***************************************************************************)
DSHARE_PUBLIC_MAX_UPLOAD_BYTES == 2
DSHARE_USER_MAX_UPLOAD_BYTES == 3
DSHARE_UPLOAD_SESSION_TTL_SECONDS == 1
DSHARE_PUBLIC_TTL_SECONDS == 1
DSHARE_USER_TTL_SECONDS == 2
DSHARE_EMAIL_TOKEN_MAX_AGE_SECONDS == 1

\* chunk_size when the request gives none, zero or a negative one.
DefaultChunkSize == 1048576

(***************************************************************************)
(* Values.                                                                 *)
(***************************************************************************)
\* request.user: 0 is the anonymous caller, the others are user ids.
Anon == 0
Users == {1, 2}
Callers == {Anon} \cup Users
\* Worker threads serving requests.
Procs == {1, 2}
SessionIds == 1..MaxSessions
\* upload_id of a request: 0 is "not supplied".
NoId == 0
FileNames == {"a", "b"}
Bytes == {1, 2}
\* A byte of a file that was never written (a hole left by a write past the end).
Hole == 0
\* The filename, size and chunk_size of the start requests clients send: a
\* file of three chunks, the same with another chunk size (a short final
\* chunk), with another size, with another name, without a chunk size or
\* with a negative one (one chunk), and the requests validation refuses.
Uploads == {<<"a", 3, 1>>, <<"a", 3, 2>>, <<"a", 2, 1>>, <<"b", 2, 1>>,
            <<"a", 2, 0>>, <<"a", 2, -1>>,
            <<"", 2, 1>>, <<"a", 0, 1>>, <<"a", 4, 1>>}
\* The uploads of three bytes.
Long == {u \in Uploads : u[1] = "a" /\ u[2] = 3}
Bodies == UNION {[1..k -> Bytes] : k \in 1..MaxBody}
\* request.FILES has no "chunk".
NoChunk == <<Hole>>
Texts == {"", "hi"}
NoText == "None"
\* The usernames of the accounts, and the email of a request as it is sent:
\* a username, one with a space before it and capitals, none, and a string
\* that is no email address.
Emails == {"u@example.com", "v@example.com"}
RawEmails == Emails \cup {" U@Example.com", "", "nope"}
\* No user: the anonymous user of a browser session.
NoUser == ""
\* The browser sessions (the clients of the tests).
Browsers == {1, 2}
\* The passwords and PINs of the requests; "" is "not supplied".
Secrets == {"pw", "1234"}
\* A DateTimeField that is null.
Never == -1
\* A hash field that is null.
NoHash == <<>>
\* token of a request that names no token that was ever created.
NoToken == 0

(***************************************************************************)
(* Faulty variants of definitions below: each is wrong in one respect, and  *)
(* a property that holds of the model fails once the variant takes the      *)
(* place of the definition.                                                 *)
(***************************************************************************)
\* A chunk path that does not depend on the index.
ChunkPathWithoutIndex(session_id, index) == <<session_id, 0>>

Empty == [x \in {} |-> 0]
Range(s) == {s[i] : i \in DOMAIN s}
Max(a, b) == IF a >= b THEN a ELSE b
Remove(f, K) == [x \in DOMAIN f \ K |-> f[x]]
Put(f, k, v) == (k :> v) @@ f

RECURSIVE sorted(_)
\* sorted(set): the elements in ascending order.
sorted(S) ==
    IF S = {} THEN <<>>
    ELSE LET m == CHOOSE x \in S : \A y \in S : x <= y
         IN  <<m>> \o sorted(S \ {m})

\* The quotient rounded down.
floor(a, b) == a \div b

\* math.ceil(a / b) for a >= 0, b > 0.  a / b is a float; for a below 2^52
\* it is an integer only when b divides a, so the ceiling is the exact one.
ceil(a, b) == IF a % b = 0 THEN a \div b ELSE (a \div b) + 1

\* total_chunks = max(1, math.ceil(total_size / chunk_size))
TotalChunks(total_size, chunk_size) == Max(1, ceil(total_size, chunk_size))

\* chunk_size = int(data.get("chunk_size") or 0) or 1024 * 1024, then the
\* `if chunk_size <= 0` default.
EffectiveChunkSize(chunk_size) ==
    IF chunk_size = 0 \/ chunk_size <= 0 THEN DefaultChunkSize ELSE chunk_size

\* The limit of the authenticated callers, for every caller.
MaxBytesOfUser(caller) == DSHARE_USER_MAX_UPLOAD_BYTES

\* The limit of the anonymous caller, for every caller.
MaxBytesOfPublic(caller) == DSHARE_PUBLIC_MAX_UPLOAD_BYTES

\* The settings lookup of max_bytes by request.user.is_authenticated.
MaxBytes(caller) ==
    IF caller = Anon THEN DSHARE_PUBLIC_MAX_UPLOAD_BYTES
    ELSE DSHARE_USER_MAX_UPLOAD_BYTES

\* The time to live of the users' slots, for every caller.
ShareTTLOfUser(caller) == DSHARE_USER_TTL_SECONDS

\* The settings lookup of ttl_seconds by is_public.
ShareTTL(caller) ==
    IF caller = Anon THEN DSHARE_PUBLIC_TTL_SECONDS ELSE DSHARE_USER_TTL_SECONDS

\* os.path.join(_upload_session_dir(session_id), f"{index}.part")
_upload_chunk_path(session_id, index) == <<session_id, index>>

\* An open that creates the file and leaves the content of one that exists.
OpenKeep(f, path) == IF path \in DOMAIN f THEN f ELSE (path :> <<>>) @@ f

\* open(path, "wb") among the files f: the file is created, or truncated.
OpenWb(f, path) == (path :> <<>>) @@ f

\* A write of data d at offset off into a file of content f (POSIX: a write
\* past the end leaves a hole).
WriteAt(f, off, d) ==
    [i \in 1..Max(Len(f), off + Len(d)) |->
        IF i > off /\ i <= off + Len(d) THEN d[i - off]
        ELSE IF i <= Len(f) THEN f[i] ELSE Hole]

(***************************************************************************)
(* State.                                                                  *)
(***************************************************************************)
VARIABLES
    now,         \* timezone.now()
    sessions,    \* the UploadSession table: id -> row
    issued,      \* how many session ids uuid4 has produced
    chunkDirs,   \* the session directories under _upload_chunk_root()
    chunkFiles,  \* the chunk files: <<session id, index>> -> content
    tmpFiles,    \* the assembly files <id>.tmp: session id -> content
    shares,      \* PublicShareState (scope 0) and UserShareState rows
    storage,     \* default_storage: blob name -> content
    pc,          \* where each worker is in its handler
    args,        \* the request each worker serves
    loc,         \* the handler's local variables
    resp,        \* the response each worker returned last
    acked,       \* history: per session, the indices a chunk upload answered ok for
    sent,        \* history: <<session id, index>> -> the body of the last ok upload
    flags,       \* history: per session, "disorder" when an index was answered
                 \* ok after a higher one, "replaced" when an index was
                 \* answered ok again with other bytes
    users,       \* the User table: username -> row
    profiles,    \* the UserProfile table: username -> row
    tokens,      \* the EmailVerificationToken table: token -> row
    minted,      \* how many tokens secrets.token_urlsafe has produced
    logins,      \* request.session of each browser: the user logged in
    attempts     \* django.core.cache: throttle key -> count

vars == <<now, sessions, issued, chunkDirs, chunkFiles, tmpFiles, shares,
          storage, pc, args, loc, resp, acked, sent, flags, users, profiles,
          tokens, minted, logins, attempts>>

auth == <<users, profiles, tokens, minted, logins, attempts>>
sharing == <<sessions, issued, chunkDirs, chunkFiles, tmpFiles, shares,
             storage, acked, sent, flags>>

disk == <<chunkDirs, chunkFiles, tmpFiles>>
slots == <<shares, storage>>
history == <<acked, sent, flags>>

\* A FieldFile without a name.
NoFile == [dir |-> "", name |-> "", k |-> 0]
\* upload_to of the two share models; the k-th alternative of a taken name.
UploadTo(scope) == IF scope = Anon THEN "public" ELSE "user"

\* Storage.get_available_name: the name itself when it is free, otherwise an
\* alternative name that is.
AvailableName(dir, name) ==
    LET free == {k \in 0..Cardinality(DOMAIN storage) :
                     [dir |-> dir, name |-> name, k |-> k] \notin DOMAIN storage}
    IN  [dir |-> dir, name |-> name,
         k |-> CHOOSE k \in free : \A j \in free : k <= j]

NoShare == [exists |-> FALSE, file |-> NoFile, text |-> NoText, updated_at |-> 0]

NoArgs == [op |-> "none", caller |-> Anon, upload_id |-> NoId, filename |-> "",
           size |-> 0, chunk_size |-> 0, index |-> 0, body |-> <<>>,
           text |-> NoText, client |-> 0, email |-> "", password |-> "",
           pin |-> "", secret |-> "", token |-> NoToken]

NoRow == [id |-> NoId, user_id |-> Anon, is_public |-> TRUE, filename |-> "",
          content_type |-> "", total_size |-> 0, chunk_size |-> 0,
          total_chunks |-> 0, received_chunks |-> <<>>, updated_at |-> 0]

\* A UserProfile as get_or_create creates it.
NoProfile == [email_verified_at |-> Never, pin_hash |-> NoHash]

NoTokenRow == [token |-> NoToken, user |-> NoUser,
               pending_password_hash |-> NoHash, pending_pin_hash |-> NoHash,
               created_at |-> 0, used_at |-> Never]

\* named, at and slot are history: the row the start request named, as it
\* was when the request arrived, the time of the arrival, and the share rows
\* and the storage as they were when the complete request arrived.
\* user, auth_user, token_obj, profile and attempts are the locals of the
\* handlers of the accounts.  swept is the sessions whose chunk directory the
\* sweep of the request has removed.
NoLoc == [session |-> NoRow, cutoff |-> 0, expired |-> <<>>, live |-> FALSE,
          off |-> 0, index |-> 0, share |-> NoShare, completed |-> FALSE,
          status |-> 0, named |-> NoRow, at |-> 0, slot |-> <<>>,
          user |-> NoUser, auth_user |-> NoUser, token_obj |-> NoTokenRow,
          profile |-> NoProfile, attempts |-> 0, swept |-> {}]

NoResp == [status |-> 0, upload_id |-> NoId, chunk_size |-> 0,
           total_chunks |-> 0, received_chunks |-> <<>>,
           missing_chunks |-> <<>>, received |-> 0, file |-> NoFile,
           text |-> NoText, location |-> ""]

Status(code) == [NoResp EXCEPT !.status = code]

\* The row of session id as a model instance.
Load(id) ==
    [id |-> id,
     user_id |-> sessions[id].user_id,
     is_public |-> sessions[id].is_public,
     filename |-> sessions[id].filename,
     content_type |-> sessions[id].content_type,
     total_size |-> sessions[id].total_size,
     chunk_size |-> sessions[id].chunk_size,
     total_chunks |-> sessions[id].total_chunks,
     received_chunks |-> sessions[id].received_chunks,
     updated_at |-> sessions[id].updated_at]

Init ==
    /\ now = 0
    /\ sessions = Empty
    /\ issued = 0
    /\ chunkDirs = {}
    /\ chunkFiles = Empty
    /\ tmpFiles = Empty
    /\ shares = [s \in Callers |-> NoShare]
    /\ storage = Empty
    /\ pc = [p \in Procs |-> "idle"]
    /\ args = [p \in Procs |-> NoArgs]
    /\ loc = [p \in Procs |-> NoLoc]
    /\ resp = [p \in Procs |-> NoResp]
    /\ acked = [id \in SessionIds |-> {}]
    /\ sent = Empty
    /\ flags = [id \in SessionIds |-> {}]
    /\ users = Empty
    /\ profiles = Empty
    /\ tokens = Empty
    /\ minted = 0
    /\ logins = [b \in Browsers |-> NoUser]
    /\ attempts = [k \in {"login_fail", "register"} |-> 0]

\* A worker takes a request when it is free; the free worker of lowest
\* number takes it (workers are interchangeable), once the responses that
\* are ready have been delivered.
Free(p) ==
    /\ pc[p] = "idle"
    /\ \A q \in Procs : pc[q] # "done" /\ (q < p => pc[q] # "idle")

\* The history of the sessions ids is dropped.
Forget(ids) ==
    /\ acked' = [id \in SessionIds |-> IF id \in ids THEN {} ELSE acked[id]]
    /\ flags' = [id \in SessionIds |-> IF id \in ids THEN {} ELSE flags[id]]
    /\ sent' = Remove(sent, {k \in DOMAIN sent : k[1] \in ids})

\* The response of worker p is delivered and the worker is free again.  The
\* history of the sessions that are deleted and that no other worker's request
\* names is dropped.
Respond(p) ==
    /\ pc[p] = "done"
    /\ pc' = [pc EXCEPT ![p] = "idle"]
    /\ args' = [args EXCEPT ![p] = NoArgs]
    /\ resp' = [resp EXCEPT ![p] = NoResp]
    /\ Forget({id \in SessionIds :
                  /\ id \notin DOMAIN sessions
                  /\ \A q \in Procs \ {p} : args[q].upload_id # id})
    /\ UNCHANGED <<auth, now, sessions, issued, disk, slots, loc>>

\* The handler of worker p returns response r.
Return(p, r) ==
    /\ pc' = [pc EXCEPT ![p] = "done"]
    /\ loc' = [loc EXCEPT ![p] = NoLoc]
    /\ resp' = [resp EXCEPT ![p] = r]

Goto(p, label) == pc' = [pc EXCEPT ![p] = label]

\* A removal that removes nothing.
RmtreeNothing(id) == UNCHANGED <<chunkDirs, chunkFiles>>

\* shutil.rmtree(_upload_session_dir(id), ignore_errors=True): the directory
\* and its chunk files go; a handle another worker holds open on one of them
\* stays open on a file no path leads to.
RmtreeFiles(id) ==
    /\ chunkDirs' = chunkDirs \ {id}
    /\ chunkFiles' = Remove(chunkFiles, {k \in DOMAIN chunkFiles : k[1] = id})

Detach(p, id, label, l) ==
    [q \in Procs |->
        IF q = p THEN l
        ELSE IF pc[q] = label /\ loc[q].session.id = id
             THEN [loc[q] EXCEPT !.live = FALSE]
             ELSE loc[q]]

(***************************************************************************)
(* _cleanup_expired_upload_sessions, called by api_upload_start.           *)
(***************************************************************************)
\* No session at all.
ExpiredNever(cutoff) == {}

\* The sessions updated at the cutoff or before it.
ExpiredAtCutoff(cutoff) ==
    {id \in DOMAIN sessions : sessions[id].updated_at <= cutoff}

\* UploadSession.objects.filter(updated_at__lt=cutoff), evaluated.
Expired(cutoff) == {id \in DOMAIN sessions : sessions[id].updated_at < cutoff}

\* The handler's locals and position once it enters the sweep: the cutoff is
\* taken and the loop's query is run.
CleanupBegin(p, l) ==
    IF DSHARE_UPLOAD_SESSION_TTL_SECONDS <= 0
    THEN /\ loc' = [loc EXCEPT ![p] = l]
         /\ Goto(p, "start_lookup")
    ELSE LET cutoff == now - DSHARE_UPLOAD_SESSION_TTL_SECONDS
             expired == sorted(Expired(cutoff))
         IN  /\ loc' = [loc EXCEPT ![p] = [l EXCEPT !.cutoff = cutoff,
                                                   !.expired = expired]]
             /\ Goto(p, IF expired = <<>> THEN "sweep_delete" ELSE "sweep_rmtree")

\* for session in expired: _delete_upload_session_files(session)
_delete_upload_session_files(p) ==
    /\ pc[p] = "sweep_rmtree"
    /\ LET id == Head(loc[p].expired)
           rest == Tail(loc[p].expired)
       IN  /\ RmtreeFiles(id)
           /\ loc' = Detach(p, id, "chunk_write",
                            [loc[p] EXCEPT !.expired = rest,
                                           !.swept = @ \cup
                                               ({id} \cap chunkDirs)])
           /\ Goto(p, IF rest = <<>> THEN "sweep_delete" ELSE "sweep_rmtree")
    /\ UNCHANGED <<auth, now, sessions, issued, tmpFiles, slots, args, resp, history>>

\* expired.delete(): the query runs again, with the cutoff taken before the loop.
_cleanup_expired_upload_sessions(p) ==
    /\ pc[p] = "sweep_delete"
    /\ LET gone == Expired(loc[p].cutoff)
       IN  sessions' = Remove(sessions, gone)
    /\ loc' = [loc EXCEPT ![p] = [NoLoc EXCEPT !.named = loc[p].named,
                                               !.at = loc[p].at]]
    /\ Goto(p, "start_lookup")
    /\ UNCHANGED <<auth, now, issued, disk, slots, args, resp, history>>

(***************************************************************************)
(* api_upload_start                                                        *)
(***************************************************************************)
\* The reuse test without the comparison of the filenames.
ReusableAnyName(a) ==
    /\ a.upload_id # NoId
    /\ a.upload_id \in DOMAIN sessions
    /\ LET session == sessions[a.upload_id]
           is_public == (a.caller = Anon)
       IN  /\ ~(session.is_public # is_public \/ session.user_id # a.caller)
           /\ ~(\/ session.total_size # a.size
                \/ session.chunk_size # a.chunk_size)

\* The reuse test of lines 720-733: the session named by upload_id, when it is
\* stored and its owner, filename, total_size and chunk_size are the request's.
Reusable(a) ==
    /\ a.upload_id # NoId
    /\ a.upload_id \in DOMAIN sessions
    /\ LET session == sessions[a.upload_id]
           is_public == (a.caller = Anon)
       IN  /\ ~(session.is_public # is_public \/ session.user_id # a.caller)
           /\ ~(\/ session.filename # a.filename
                \/ session.total_size # a.size
                \/ session.chunk_size # a.chunk_size)

\* The start requests clients send.
StartRequests(callers, uploads) ==
    {[caller |-> c, filename |-> u[1], size |-> u[2], chunk_size |-> u[3],
      upload_id |-> i] :
        c \in callers, u \in uploads, i \in {NoId} \cup SessionIds}

\* The request arrives: parsing and validation, then the sweep's query.
api_upload_start(p, requests) ==
    /\ Free(p)
    /\ \E r \in requests :
          /\ args' = [args EXCEPT ![p] =
                [NoArgs EXCEPT !.op = "start", !.caller = r.caller,
                               !.filename = r.filename, !.size = r.size,
                               !.chunk_size = EffectiveChunkSize(r.chunk_size),
                               !.upload_id = r.upload_id]]
          /\ IF r.filename = "" \/ r.size <= 0
             THEN Return(p, Status(400))
             ELSE IF r.size > MaxBytes(r.caller)
             THEN Return(p, Status(413))
             ELSE /\ CleanupBegin(p, [NoLoc EXCEPT
                         !.named = IF r.upload_id \in DOMAIN sessions
                                   THEN Load(r.upload_id) ELSE NoRow,
                         !.at = now])
                  /\ UNCHANGED resp
    /\ UNCHANGED <<auth, now, sessions, issued, disk, slots, history>>

\* UploadSession.objects.get(id=upload_id) and the reuse test; without a
\* session to reuse, UploadSession.objects.create(...) and the response.
\* No more than quota sessions are ever created.
StartLookup(p, quota) ==
    /\ pc[p] = "start_lookup"
    /\ LET a == args[p]
           total_chunks == TotalChunks(a.size, a.chunk_size)
       IN  IF Reusable(a)
           THEN /\ loc' = [loc EXCEPT ![p] =
                      [loc[p] EXCEPT !.session = Load(a.upload_id)]]
                /\ Goto(p, "start_resume")
                /\ UNCHANGED <<sessions, issued, resp>>
           ELSE /\ issued < quota
                /\ LET id == issued + 1
                   IN  /\ issued' = id
                       /\ sessions' = Put(sessions, id,
                              [user_id |-> a.caller,
                               is_public |-> (a.caller = Anon),
                               filename |-> a.filename,
                               content_type |-> "",
                               total_size |-> a.size,
                               chunk_size |-> a.chunk_size,
                               total_chunks |-> total_chunks,
                               received_chunks |-> <<>>,
                               updated_at |-> now])
                       /\ Return(p, [Status(200) EXCEPT
                              !.upload_id = id,
                              !.chunk_size = a.chunk_size,
                              !.total_chunks = total_chunks,
                              !.received_chunks = <<>>])
    /\ UNCHANGED <<auth, now, disk, slots, args, history>>

\* The resume that leaves updated_at as it is.
StartResumeKeepsTime(p) ==
    /\ pc[p] = "start_resume"
    /\ LET a == args[p]
           session == loc[p].session
           total_chunks == TotalChunks(a.size, a.chunk_size)
           received == {v \in Range(session.received_chunks) :
                            0 <= v /\ v < total_chunks}
       IN  IF session.id \in DOMAIN sessions
           THEN /\ sessions' = [sessions EXCEPT ![session.id] =
                      [@ EXCEPT !.received_chunks = sorted(received),
                                !.total_chunks = total_chunks]]
                /\ Return(p, [Status(200) EXCEPT
                      !.upload_id = session.id,
                      !.chunk_size = session.chunk_size,
                      !.total_chunks = total_chunks,
                      !.received_chunks = sorted(received)])
           ELSE /\ Return(p, Status(500))
                /\ UNCHANGED sessions
    /\ UNCHANGED <<auth, now, issued, disk, slots, args, history>>

\* The resume that drops the indices received.
StartResumeForgets(p) ==
    /\ pc[p] = "start_resume"
    /\ LET a == args[p]
           session == loc[p].session
           total_chunks == TotalChunks(a.size, a.chunk_size)
       IN  IF session.id \in DOMAIN sessions
           THEN /\ sessions' = [sessions EXCEPT ![session.id] =
                      [@ EXCEPT !.received_chunks = <<>>,
                                !.total_chunks = total_chunks,
                                !.updated_at = now]]
                /\ Return(p, [Status(200) EXCEPT
                      !.upload_id = session.id,
                      !.chunk_size = session.chunk_size,
                      !.total_chunks = total_chunks])
           ELSE /\ Return(p, Status(500))
                /\ UNCHANGED sessions
    /\ UNCHANGED <<auth, now, issued, disk, slots, args, history>>

\* Lines 748-758: the received indices filtered to the valid range, saved
\* with total_chunks and updated_at; save(update_fields=...) raises when the
\* row is gone.
StartResume(p) ==
    /\ pc[p] = "start_resume"
    /\ LET a == args[p]
           session == loc[p].session
           total_chunks == TotalChunks(a.size, a.chunk_size)
           received == {v \in Range(session.received_chunks) :
                            0 <= v /\ v < total_chunks}
       IN  IF session.id \in DOMAIN sessions
           THEN /\ sessions' = [sessions EXCEPT ![session.id] =
                      [@ EXCEPT !.received_chunks = sorted(received),
                                !.total_chunks = total_chunks,
                                !.updated_at = now]]
                /\ Return(p, [Status(200) EXCEPT
                      !.upload_id = session.id,
                      !.chunk_size = session.chunk_size,
                      !.total_chunks = total_chunks,
                      !.received_chunks = sorted(received)])
           ELSE /\ Return(p, Status(500))
                /\ UNCHANGED sessions
    /\ UNCHANGED <<auth, now, issued, disk, slots, args, history>>

(***************************************************************************)
(* api_upload_chunk                                                        *)
(***************************************************************************)
\* The ownership test without the comparison of the user ids.
ForbiddenByKind(session, caller) == session.is_public # (caller = Anon)

\* The ownership test of lines 788-795 (and 845-852): TRUE when the request
\* is answered 403.
Forbidden(session, caller) ==
    LET is_authenticated == (caller # Anon)
        is_public == ~is_authenticated
    IN  \/ session.is_public # is_public
        \/ (session.user_id # Anon /\ is_authenticated /\ session.user_id # caller)
        \/ (session.user_id # Anon /\ ~is_authenticated)

Indices == -1..DSHARE_USER_MAX_UPLOAD_BYTES

\* No size test at all.
TooLargeNever(session, index, body) == FALSE

\* The size test that spares the last two chunks.
TooLargeButLastTwo(session, index, body) ==
    index < session.total_chunks - 2 /\ Len(body) > session.chunk_size

\* index < session.total_chunks - 1 and _file_size(uploaded_file) >
\* session.chunk_size
TooLarge(session, index, body) ==
    index < session.total_chunks - 1 /\ Len(body) > session.chunk_size

\* The chunk requests clients send.
ChunkRequests(callers, bodies) ==
    {[caller |-> c, upload_id |-> i, index |-> k, body |-> b] :
        c \in callers, i \in {NoId} \cup SessionIds, k \in Indices,
        b \in bodies \cup {NoChunk}}

\* The sessions that hold chunks or are being sent one.
Filling ==
    chunkDirs \cup {loc[q].session.id : q \in {w \in Procs :
        pc[w] \in {"chunk_mkdir", "chunk_open", "chunk_write", "chunk_save"}}}

\* The request reaches the checks that read its index and its chunk, or it
\* carries index 0 and a chunk of one byte.
Plain(r) == r.index = 0 /\ r.body = <<1>>
Pertinent(r) ==
    IF r.upload_id \notin DOMAIN sessions THEN Plain(r)
    ELSE IF Forbidden(Load(r.upload_id), r.caller) THEN Plain(r)
    ELSE IF r.index < 0 \/ r.index >= sessions[r.upload_id].total_chunks
    THEN r.body = <<1>>
    ELSE TRUE

\* The handler without the test of the index against total_chunks.
ChunkIndexUntested(p, requests) ==
    /\ Free(p)
    /\ \E r \in requests :
          /\ Pertinent(r)
          /\ args' = [args EXCEPT ![p] =
                [NoArgs EXCEPT !.op = "chunk", !.caller = r.caller,
                               !.upload_id = r.upload_id, !.index = r.index,
                               !.body = r.body]]
          /\ IF r.upload_id = NoId
             THEN Return(p, Status(400))
             ELSE IF r.upload_id \notin DOMAIN sessions
             THEN Return(p, Status(404))
             ELSE LET session == Load(r.upload_id)
                  IN  IF Forbidden(session, r.caller)
                      THEN Return(p, Status(403))
                      ELSE IF r.body = NoChunk
                      THEN Return(p, Status(400))
                      ELSE IF TooLarge(session, r.index, r.body)
                      THEN Return(p, Status(413))
                      ELSE /\ Cardinality(Filling \cup {session.id}) <= MaxFilled
                           /\ loc' = [loc EXCEPT ![p] =
                                 [NoLoc EXCEPT !.session = session]]
                           /\ Goto(p, "chunk_mkdir")
                           /\ UNCHANGED resp
    /\ UNCHANGED <<auth, now, sessions, issued, disk, slots, history>>

\* The request arrives: the session is loaded and the request validated.
api_upload_chunk(p, requests) ==
    /\ Free(p)
    /\ \E r \in requests :
          /\ Pertinent(r)
          /\ args' = [args EXCEPT ![p] =
                [NoArgs EXCEPT !.op = "chunk", !.caller = r.caller,
                               !.upload_id = r.upload_id, !.index = r.index,
                               !.body = r.body]]
          /\ IF r.upload_id = NoId
             THEN Return(p, Status(400))
             ELSE IF r.upload_id \notin DOMAIN sessions
             THEN Return(p, Status(404))
             ELSE LET session == Load(r.upload_id)
                  IN  IF Forbidden(session, r.caller)
                      THEN Return(p, Status(403))
                      ELSE IF r.index < 0 \/ r.index >= session.total_chunks
                      THEN Return(p, Status(400))
                      ELSE IF r.body = NoChunk
                      THEN Return(p, Status(400))
                      ELSE IF TooLarge(session, r.index, r.body)
                      THEN Return(p, Status(413))
                      ELSE /\ Cardinality(Filling \cup {session.id}) <= MaxFilled
                           /\ loc' = [loc EXCEPT ![p] =
                                 [NoLoc EXCEPT !.session = session]]
                           /\ Goto(p, "chunk_mkdir")
                           /\ UNCHANGED resp
    /\ UNCHANGED <<auth, now, sessions, issued, disk, slots, history>>

\* os.makedirs(session_dir, exist_ok=True)
ChunkMkdir(p) ==
    /\ pc[p] = "chunk_mkdir"
    /\ chunkDirs' = chunkDirs \cup {loc[p].session.id}
    /\ Goto(p, "chunk_open")
    /\ UNCHANGED <<auth, now, sessions, issued, chunkFiles, tmpFiles, slots, args,
                   loc, resp, history>>

\* open(chunk_path, "wb"): the file is created or truncated; without its
\* directory the open raises.
ChunkOpen(p) ==
    /\ pc[p] = "chunk_open"
    /\ LET id == loc[p].session.id
       IN  IF id \in chunkDirs
           THEN /\ chunkFiles' = OpenWb(chunkFiles, _upload_chunk_path(id, args[p].index))
                /\ loc' = [loc EXCEPT ![p].live = TRUE]
                /\ Goto(p, "chunk_write")
                /\ UNCHANGED resp
           ELSE /\ Return(p, Status(500))
                /\ UNCHANGED chunkFiles
    /\ UNCHANGED <<auth, now, sessions, issued, chunkDirs, tmpFiles, slots, args,
                   history>>

\* for chunk in uploaded_file.chunks(): handle.write(chunk), and the close.
ChunkWrite(p) ==
    /\ pc[p] = "chunk_write"
    /\ LET key == _upload_chunk_path(loc[p].session.id, args[p].index)
       IN  IF loc[p].live
           THEN chunkFiles' = Put(chunkFiles, key,
                                  WriteAt(chunkFiles[key], 0, args[p].body))
           ELSE UNCHANGED chunkFiles
    /\ Goto(p, "chunk_save")
    /\ UNCHANGED <<auth, now, sessions, issued, chunkDirs, tmpFiles, slots, args,
                   loc, resp, history>>

\* The save of this index alone, without the indices loaded.
ChunkSaveOnlyIndex(p) ==
    /\ pc[p] = "chunk_save"
    /\ LET id == loc[p].session.id
           index == args[p].index
       IN  /\ id \in DOMAIN sessions
           /\ sessions' = [sessions EXCEPT ![id] =
                 [@ EXCEPT !.received_chunks = <<index>>,
                           !.updated_at = now]]
           /\ Return(p, [Status(200) EXCEPT
                 !.received = 1,
                 !.total_chunks = loc[p].session.total_chunks])
           /\ acked' = [acked EXCEPT ![id] = @ \cup {index}]
           /\ sent' = Put(sent, <<id, index>>, args[p].body)
           /\ UNCHANGED flags
    /\ UNCHANGED <<auth, now, issued, disk, slots, args>>

\* The save that inserts the row when no row was updated.
ChunkSaveInserts(p) ==
    /\ pc[p] = "chunk_save"
    /\ LET session == loc[p].session
           id == session.id
           index == args[p].index
           received == Range(session.received_chunks) \cup {index}
       IN  /\ sessions' =
                 IF id \in DOMAIN sessions
                 THEN [sessions EXCEPT ![id] =
                         [@ EXCEPT !.received_chunks = sorted(received),
                                   !.updated_at = now]]
                 ELSE Put(sessions, id,
                         [user_id |-> session.user_id,
                          is_public |-> session.is_public,
                          filename |-> session.filename,
                          content_type |-> session.content_type,
                          total_size |-> session.total_size,
                          chunk_size |-> session.chunk_size,
                          total_chunks |-> session.total_chunks,
                          received_chunks |-> sorted(received),
                          updated_at |-> now])
           /\ Return(p, [Status(200) EXCEPT
                 !.received = Len(sorted(received)),
                 !.total_chunks = session.total_chunks])
           /\ acked' = [acked EXCEPT ![id] = @ \cup {index}]
           /\ sent' = Put(sent, <<id, index>>, args[p].body)
           /\ UNCHANGED flags
    /\ UNCHANGED <<auth, now, issued, disk, slots, args>>

\* Lines 814-822: the loaded indices and this one, sorted, saved with
\* updated_at; then the response.
ChunkSave(p) ==
    /\ pc[p] = "chunk_save"
    /\ LET session == loc[p].session
           id == session.id
           index == args[p].index
           received == Range(session.received_chunks) \cup {index}
       IN  IF id \in DOMAIN sessions
           THEN /\ sessions' = [sessions EXCEPT ![id] =
                      [@ EXCEPT !.received_chunks = sorted(received),
                                !.updated_at = now]]
                /\ Return(p, [Status(200) EXCEPT
                      !.received = Len(sorted(received)),
                      !.total_chunks = session.total_chunks])
                /\ acked' = [acked EXCEPT ![id] = @ \cup {index}]
                /\ sent' = Put(sent, <<id, index>>, args[p].body)
                /\ flags' = [flags EXCEPT ![id] = @
                      \cup (IF /\ index \in acked[id]
                               /\ sent[<<id, index>>] # args[p].body
                            THEN {"replaced"} ELSE {})
                      \cup (IF \E j \in acked[id] : j > index
                            THEN {"disorder"} ELSE {})]
           ELSE /\ Return(p, Status(500))
                /\ UNCHANGED <<sessions, history>>
    /\ UNCHANGED <<auth, now, issued, disk, slots, args>>

(***************************************************************************)
(* The share row of a scope: _get_or_create_*_share, _maybe_expire_share   *)
(* and what each handler does once it holds the row.                       *)
(***************************************************************************)
\* What the handler of worker p does after _maybe_expire_share, its locals
\* being l and its request a: the next access it goes to, or its response.
Continue(p, a, l) ==
    LET To(label) == /\ loc' = [loc EXCEPT ![p] = l]
                     /\ Goto(p, label)
                     /\ UNCHANGED resp
    IN  CASE a.op = "complete" ->
                To(IF l.share.file # NoFile THEN "complete_delete_old"
                     ELSE "complete_store")
          [] a.op = "upload" ->
                IF a.body # NoChunk
                THEN IF Len(a.body) > MaxBytes(a.caller)
                     THEN Return(p, Status(413))
                     ELSE To(IF l.share.file # NoFile THEN "upload_delete_old"
                               ELSE "upload_store")
                ELSE IF a.text # NoText
                THEN To(IF l.share.file # NoFile THEN "upload_delete_old"
                          ELSE "upload_save")
                ELSE Return(p, Status(400))
          [] a.op = "download" ->
                IF l.share.file # NoFile
                THEN Return(p, [Status(302) EXCEPT !.file = l.share.file])
                ELSE IF l.share.text # NoText /\ l.share.text # ""
                THEN Return(p, [Status(200) EXCEPT !.text = l.share.text])
                ELSE Return(p, Status(200))
          [] a.op = "text" ->
                Return(p, [Status(200) EXCEPT
                    !.text = IF l.share.text = NoText THEN "" ELSE l.share.text])

\* _get_or_create_public_share / _get_or_create_user_share, then the test of
\* _maybe_expire_share.
ShareEnter(p, a, l) ==
    LET scope == a.caller
        row == IF shares[scope].exists THEN shares[scope]
               ELSE [NoShare EXCEPT !.exists = TRUE, !.updated_at = now]
        ttl_seconds == ShareTTL(scope)
        ll == [l EXCEPT !.share = row]
    IN  /\ shares' = [shares EXCEPT ![scope] = row]
        /\ IF ttl_seconds <= 0 \/ row.updated_at >= now - ttl_seconds
           THEN Continue(p, a, ll)
           ELSE /\ loc' = [loc EXCEPT ![p] = ll]
                /\ Goto(p, IF row.file # NoFile THEN "expire_delete"
                           ELSE "expire_save")
                /\ UNCHANGED resp

\* A deletion that deletes nothing.
DeleteNothing(p) == UNCHANGED storage

\* _delete_field_file(share.file) of worker p's share instance: the blob is
\* deleted from storage and the instance's field emptied.
DeleteFieldFile(p) ==
    storage' = Remove(storage, {loc[p].share.file})

\* _maybe_expire_share: if share.file: _delete_field_file(share.file)
ExpireDelete(p) ==
    /\ pc[p] = "expire_delete"
    /\ DeleteFieldFile(p)
    /\ loc' = [loc EXCEPT ![p].share.file = NoFile]
    /\ Goto(p, "expire_save")
    /\ UNCHANGED <<auth, now, sessions, issued, disk, shares, args, resp, history>>

\* _maybe_expire_share: file and text emptied, share.save(update_fields=...)
_maybe_expire_share(p) ==
    /\ pc[p] = "expire_save"
    /\ LET row == [NoShare EXCEPT !.exists = TRUE, !.updated_at = now]
       IN  /\ shares' = [shares EXCEPT ![args[p].caller] = row]
           /\ Continue(p, args[p], [loc[p] EXCEPT !.share = row])
    /\ UNCHANGED <<auth, now, sessions, issued, disk, storage, args, history>>

(***************************************************************************)
(* api_upload_complete                                                     *)
(***************************************************************************)
\* missing = [i for i in range(session.total_chunks) if i not in received]
\* The missing indices counted from 1.
MissingFromOne(session) ==
    sorted({i \in 1..session.total_chunks :
                i \notin Range(session.received_chunks)})

Missing(session) ==
    sorted({i \in 0..(session.total_chunks - 1) :
                i \notin Range(session.received_chunks)})

\* The complete requests clients send.
CompleteRequests(callers) ==
    {[caller |-> c, upload_id |-> i] :
        c \in callers, i \in {NoId} \cup SessionIds}

\* The request arrives: the session is loaded, the caller and the received
\* indices are checked.
api_upload_complete(p, requests) ==
    /\ Free(p)
    /\ \E r \in requests :
          /\ args' = [args EXCEPT ![p] =
                [NoArgs EXCEPT !.op = "complete", !.caller = r.caller,
                               !.upload_id = r.upload_id]]
          /\ IF r.upload_id = NoId
             THEN Return(p, Status(400))
             ELSE IF r.upload_id \notin DOMAIN sessions
             THEN Return(p, Status(404))
             ELSE LET session == Load(r.upload_id)
                      received == Range(session.received_chunks)
                  IN  IF Forbidden(session, r.caller)
                      THEN Return(p, Status(403))
                      ELSE IF Cardinality(received) # session.total_chunks
                      THEN Return(p, [Status(409) EXCEPT
                               !.missing_chunks = Missing(session)])
                      ELSE /\ loc' = [loc EXCEPT ![p] =
                                 [NoLoc EXCEPT !.session = session,
                                               !.slot = slots]]
                           /\ Goto(p, "complete_open")
                           /\ UNCHANGED resp
    /\ UNCHANGED <<auth, now, sessions, issued, disk, slots, history>>

\* A return that skips the finally block.
FinallySkipped(p, status) ==
    /\ loc' = [loc EXCEPT ![p] = NoLoc]
    /\ Goto(p, "done")
    /\ resp' = [resp EXCEPT ![p] = Status(status)]

\* A return or an exception inside the try block: on to the finally block.
Finally(p, status) ==
    /\ loc' = [loc EXCEPT ![p].status = status, ![p].live = FALSE]
    /\ Goto(p, "complete_rm_tmp")
    /\ UNCHANGED resp

\* open(temp_path, "wb"): <id>.tmp is created or truncated.
CompleteOpen(p) ==
    /\ pc[p] = "complete_open"
    /\ tmpFiles' = OpenWb(tmpFiles, loc[p].session.id)
    /\ loc' = [loc EXCEPT ![p].live = TRUE, ![p].off = 0, ![p].index = 0]
    /\ Goto(p, "complete_copy")
    /\ UNCHANGED <<auth, now, sessions, issued, chunkDirs, chunkFiles, slots, args,
                   resp, history>>

\* The loop that passes over a chunk file that is not there.
CompleteCopySkipsAbsent(p) ==
    /\ pc[p] = "complete_copy"
    /\ LET session == loc[p].session
           index == loc[p].index
       IN  /\ loc' = [loc EXCEPT ![p].index = index + 1]
           /\ Goto(p, IF index + 1 = session.total_chunks
                      THEN "complete_getsize" ELSE "complete_copy")
    /\ UNCHANGED <<auth, now, sessions, issued, disk, slots, args, resp, history>>

\* One round of the loop of lines 871-876: the chunk file is looked for and
\* copied to the end of what this handler wrote to <id>.tmp.
CompleteCopy(p) ==
    /\ pc[p] = "complete_copy"
    /\ LET session == loc[p].session
           id == session.id
           index == loc[p].index
           key == _upload_chunk_path(id, index)
       IN  IF key \notin DOMAIN chunkFiles
           THEN /\ Finally(p, 409)
                /\ UNCHANGED tmpFiles
           ELSE /\ IF loc[p].live
                   THEN tmpFiles' = Put(tmpFiles, id,
                            WriteAt(tmpFiles[id], loc[p].off, chunkFiles[key]))
                   ELSE UNCHANGED tmpFiles
                /\ loc' = [loc EXCEPT ![p].off = @ + Len(chunkFiles[key]),
                                      ![p].index = index + 1]
                /\ Goto(p, IF index + 1 = session.total_chunks
                           THEN "complete_getsize" ELSE "complete_copy")
                /\ UNCHANGED resp
    /\ UNCHANGED <<auth, now, sessions, issued, chunkDirs, chunkFiles, slots, args,
                   history>>

\* The size check left out.
CompleteGetsizeUnchecked(p) ==
    /\ pc[p] = "complete_getsize"
    /\ loc' = [loc EXCEPT ![p].live = FALSE]
    /\ Goto(p, "complete_share")
    /\ UNCHANGED <<auth, now, sessions, issued, disk, slots, args, resp, history>>

\* os.path.getsize(temp_path) != session.total_size
CompleteGetsize(p) ==
    /\ pc[p] = "complete_getsize"
    /\ LET session == loc[p].session
       IN  IF session.id \notin DOMAIN tmpFiles
           THEN Finally(p, 500)
           ELSE IF Len(tmpFiles[session.id]) # session.total_size
           THEN Finally(p, 409)
           ELSE /\ loc' = [loc EXCEPT ![p].live = FALSE]
                /\ Goto(p, "complete_share")
                /\ UNCHANGED resp
    /\ UNCHANGED <<auth, now, sessions, issued, disk, slots, args, history>>

\* Lines 881-893: the share row of the caller's scope and its expiry.
CompleteShare(p) ==
    /\ pc[p] = "complete_share"
    /\ ShareEnter(p, args[p], loc[p])
    /\ UNCHANGED <<auth, now, sessions, issued, disk, storage, args, history>>

\* if share.file: _delete_field_file(share.file)
CompleteDeleteOld(p) ==
    /\ pc[p] = "complete_delete_old"
    /\ DeleteFieldFile(p)
    /\ loc' = [loc EXCEPT ![p].share.file = NoFile]
    /\ Goto(p, "complete_store")
    /\ UNCHANGED <<auth, now, sessions, issued, disk, shares, args, resp, history>>

\* open(temp_path, "rb") and share.file.save(session.filename, ..., save=False)
CompleteStore(p) ==
    /\ pc[p] = "complete_store"
    /\ LET session == loc[p].session
           name == AvailableName(UploadTo(args[p].caller), session.filename)
       IN  IF session.id \notin DOMAIN tmpFiles
           THEN /\ Finally(p, 500)
                /\ UNCHANGED storage
           ELSE /\ Cardinality(DOMAIN storage) < MaxBlobs
                /\ storage' = Put(storage, name, tmpFiles[session.id])
                /\ loc' = [loc EXCEPT ![p].share.file = name]
                /\ Goto(p, "complete_save_share")
                /\ UNCHANGED resp
    /\ UNCHANGED <<auth, now, sessions, issued, disk, shares, args, history>>

\* share.file.save(...) raises (the storage cannot write the file): nothing is
\* stored, the exception leaves the try block.
CompleteStoreFails(p) ==
    /\ pc[p] = "complete_store"
    /\ Finally(p, 500)
    /\ UNCHANGED <<auth, now, sessions, issued, disk, slots, args, history>>

\* The row of the public slot saved, whoever the caller is.
CompleteSaveShareOfPublic(p) ==
    /\ pc[p] = "complete_save_share"
    /\ shares' = [shares EXCEPT ![Anon] =
          [exists |-> TRUE, file |-> loc[p].share.file, text |-> NoText,
           updated_at |-> now]]
    /\ loc' = [loc EXCEPT ![p].completed = TRUE]
    /\ Goto(p, "complete_rm_tmp")
    /\ UNCHANGED <<auth, now, sessions, issued, disk, storage, args, resp, history>>

\* share.text = None; share.save(update_fields=["file", "text", "updated_at"])
CompleteSaveShare(p) ==
    /\ pc[p] = "complete_save_share"
    /\ shares' = [shares EXCEPT ![args[p].caller] =
          [exists |-> TRUE, file |-> loc[p].share.file, text |-> NoText,
           updated_at |-> now]]
    /\ loc' = [loc EXCEPT ![p].completed = TRUE]
    /\ Goto(p, "complete_rm_tmp")
    /\ UNCHANGED <<auth, now, sessions, issued, disk, storage, args, resp, history>>

\* share.save(...) raises (the database refuses the update): the row stays as
\* it was, the exception leaves the try block.
CompleteSaveShareFails(p) ==
    /\ pc[p] = "complete_save_share"
    /\ Finally(p, 500)
    /\ UNCHANGED <<auth, now, sessions, issued, disk, slots, args, history>>

\* finally: if os.path.exists(temp_path): os.remove(temp_path)
CompleteRemoveTemp(p) ==
    /\ pc[p] = "complete_rm_tmp"
    /\ LET id == loc[p].session.id
       IN  /\ tmpFiles' = Remove(tmpFiles, {id})
           /\ IF loc[p].completed
              THEN /\ loc' = Detach(p, id, "complete_copy", loc[p])
                   /\ Goto(p, "complete_rmtree")
                   /\ UNCHANGED resp
              ELSE /\ loc' = Detach(p, id, "complete_copy", NoLoc)
                   /\ Goto(p, "done")
                   /\ resp' = [resp EXCEPT ![p] = Status(loc[p].status)]
    /\ UNCHANGED <<auth, now, sessions, issued, chunkDirs, chunkFiles, slots, args,
                   history>>

\* finally: if completed: _delete_upload_session_files(session)
CompleteRmtree(p) ==
    /\ pc[p] = "complete_rmtree"
    /\ LET id == loc[p].session.id
       IN  /\ RmtreeFiles(id)
           /\ loc' = Detach(p, id, "chunk_write", loc[p])
    /\ Goto(p, "complete_delete_row")
    /\ UNCHANGED <<auth, now, sessions, issued, tmpFiles, slots, args, resp, history>>

\* finally: if completed: session.delete(); then the ok response.
CompleteDeleteRow(p) ==
    /\ pc[p] = "complete_delete_row"
    /\ sessions' = Remove(sessions, {loc[p].session.id})
    /\ Return(p, Status(200))
    /\ UNCHANGED <<auth, now, issued, disk, slots, args, history>>

(***************************************************************************)
(* upload_view, download_view, api_share_text, api_share_clear             *)
(***************************************************************************)
\* The upload requests clients send: with a file (a name and a body), with a
\* text or with neither.
UploadRequests(callers, files, texts) ==
    {[caller |-> c, filename |-> f[1], body |-> f[2], text |-> NoText] :
        c \in callers, f \in files}
    \cup {[caller |-> c, filename |-> "", body |-> NoChunk, text |-> t] :
        c \in callers, t \in texts \cup {NoText}}

\* The request arrives with a file, with a text or with neither.
upload_view(p, requests) ==
    /\ Free(p)
    /\ \E r \in requests :
          LET a == [NoArgs EXCEPT !.op = "upload", !.caller = r.caller,
                                  !.filename = r.filename, !.body = r.body,
                                  !.text = r.text]
          IN  /\ args' = [args EXCEPT ![p] = a]
              /\ ShareEnter(p, a, NoLoc)
    /\ UNCHANGED <<auth, now, sessions, issued, disk, storage, history>>

\* if share.file: _delete_field_file(share.file), on either branch.
UploadDeleteOld(p) ==
    /\ pc[p] = "upload_delete_old"
    /\ DeleteFieldFile(p)
    /\ loc' = [loc EXCEPT ![p].share.file = NoFile]
    /\ Goto(p, IF args[p].body # NoChunk THEN "upload_store" ELSE "upload_save")
    /\ UNCHANGED <<auth, now, sessions, issued, disk, shares, args, resp, history>>

\* share.file = uploaded_file; share.save(...): the field's pre_save stores
\* the file under an available name.
UploadStore(p) ==
    /\ pc[p] = "upload_store"
    /\ Cardinality(DOMAIN storage) < MaxBlobs
    /\ LET name == AvailableName(UploadTo(args[p].caller), args[p].filename)
       IN  /\ storage' = Put(storage, name, args[p].body)
           /\ loc' = [loc EXCEPT ![p].share.file = name]
    /\ Goto(p, "upload_save")
    /\ UNCHANGED <<auth, now, sessions, issued, disk, shares, args, resp, history>>

\* The save of the file branch leaves the text of the row as it is.
UploadSaveKeepsText(p) ==
    /\ pc[p] = "upload_save"
    /\ shares' = [shares EXCEPT ![args[p].caller] =
          [exists |-> TRUE,
           file |-> loc[p].share.file,
           text |-> IF args[p].body # NoChunk THEN shares[args[p].caller].text
                    ELSE args[p].text,
           updated_at |-> now]]
    /\ Return(p, Status(200))
    /\ UNCHANGED <<auth, now, sessions, issued, disk, storage, args, history>>

\* The save of either branch leaves the row without a text.
UploadSaveWithoutText(p) ==
    /\ pc[p] = "upload_save"
    /\ shares' = [shares EXCEPT ![args[p].caller] =
          [exists |-> TRUE, file |-> loc[p].share.file, text |-> NoText,
           updated_at |-> now]]
    /\ Return(p, Status(200))
    /\ UNCHANGED <<auth, now, sessions, issued, disk, storage, args, history>>

\* share.save(update_fields=["file", "text", "updated_at"]) of either branch.
UploadSave(p) ==
    /\ pc[p] = "upload_save"
    /\ shares' = [shares EXCEPT ![args[p].caller] =
          [exists |-> TRUE,
           file |-> loc[p].share.file,
           text |-> IF args[p].body # NoChunk THEN NoText ELSE args[p].text,
           updated_at |-> now]]
    /\ Return(p, Status(200))
    /\ UNCHANGED <<auth, now, sessions, issued, disk, storage, args, history>>

download_view(p, callers) ==
    /\ Free(p)
    /\ \E caller \in callers :
          /\ LET a == [NoArgs EXCEPT !.op = "download", !.caller = caller]
             IN  /\ args' = [args EXCEPT ![p] = a]
                 /\ ShareEnter(p, a, NoLoc)
    /\ UNCHANGED <<auth, now, sessions, issued, disk, storage, history>>

api_share_text(p, callers) ==
    /\ Free(p)
    /\ \E caller \in callers :
          /\ LET a == [NoArgs EXCEPT !.op = "text", !.caller = caller]
             IN  /\ args' = [args EXCEPT ![p] = a]
                 /\ ShareEnter(p, a, NoLoc)
    /\ UNCHANGED <<auth, now, sessions, issued, disk, storage, history>>

\* The request arrives: the share row is fetched (no expiry on this path).
api_share_clear(p, callers) ==
    /\ Free(p)
    /\ \E caller \in callers :
          LET row == IF shares[caller].exists THEN shares[caller]
                     ELSE [NoShare EXCEPT !.exists = TRUE, !.updated_at = now]
          IN  /\ args' = [args EXCEPT ![p] =
                    [NoArgs EXCEPT !.op = "clear", !.caller = caller]]
              /\ shares' = [shares EXCEPT ![caller] = row]
              /\ loc' = [loc EXCEPT ![p] = [NoLoc EXCEPT !.share = row]]
              /\ Goto(p, IF row.file # NoFile THEN "clear_delete" ELSE "clear_save")
    /\ UNCHANGED <<auth, now, sessions, issued, disk, storage, resp, history>>

ClearDelete(p) ==
    /\ pc[p] = "clear_delete"
    /\ DeleteFieldFile(p)
    /\ loc' = [loc EXCEPT ![p].share.file = NoFile]
    /\ Goto(p, "clear_save")
    /\ UNCHANGED <<auth, now, sessions, issued, disk, shares, args, resp, history>>

ClearSave(p) ==
    /\ pc[p] = "clear_save"
    /\ shares' = [shares EXCEPT ![args[p].caller] =
          [NoShare EXCEPT !.exists = TRUE, !.updated_at = now]]
    /\ Return(p, Status(200))
    /\ UNCHANGED <<auth, now, sessions, issued, disk, storage, args, history>>

(***************************************************************************)
(* The accounts: api_auth_register, verify_email_view,                     *)
(* api_auth_password_login, api_auth_logout.                               *)
(***************************************************************************)
\* (data.get("email") or "").strip().lower()
Normal(raw) == IF raw = " U@Example.com" THEN "u@example.com" ELSE raw

\* validate_email(email) does not raise.
ValidEmail(email) == email \in Emails

\* make_password(secret): a hash of the secret.
make_password(secret) == <<"pbkdf2_sha256", secret>>

\* check_password(secret, encoded)
check_password(secret, encoded) == encoded = make_password(secret)

\* user.set_unusable_password(): a password no secret is checked against.
UnusablePassword == <<"!">>

\* A token that never expires.
NeverExpired(token_obj, max_age_seconds) == FALSE

\* EmailVerificationToken.is_expired(max_age_seconds=...)
is_expired(token_obj, max_age_seconds) ==
    IF max_age_seconds <= 0 THEN TRUE
    ELSE token_obj.created_at < now - max_age_seconds

\* ModelBackend.authenticate(request, username=..., password=...): the user
\* of that username when the password is the user's and the user is active.
authenticate(username, password) ==
    /\ username \in DOMAIN users
    /\ check_password(password, users[username].password)
    /\ users[username].is_active

\* _get_or_create_profile(user): the table with the user's profile in it.
WithProfile(user) ==
    IF user \in DOMAIN profiles THEN profiles
    ELSE Put(profiles, user, NoProfile)

\* User.objects.create_user(username=..., email=..., password="pw") and
\* UserProfile.objects.get_or_create(user=user), as the tests and the
\* management shell create an account: it has a password and no verified
\* email.
create_user(emails) ==
    /\ \E email \in emails \ DOMAIN users :
          /\ users' = Put(users, email,
                [password |-> make_password("pw"), is_active |-> TRUE])
          /\ profiles' = Put(profiles, email, NoProfile)
    /\ UNCHANGED <<now, sharing, pc, args, loc, resp, tokens, minted, logins,
                   attempts>>

\* An entry of the cache outlives its timeout of ten minutes.
CacheTimeout ==
    /\ \E key \in DOMAIN attempts :
          /\ attempts[key] > 0
          /\ attempts' = [attempts EXCEPT ![key] = 0]
    /\ UNCHANGED <<now, sharing, pc, args, loc, resp, users, profiles, tokens,
                   minted, logins>>

\* The register requests clients send.
RegisterRequests(browsers, emails, secrets) ==
    {[client |-> b, email |-> e, password |-> s, pin |-> n] :
        b \in browsers, e \in emails, s \in secrets \cup {""},
        n \in secrets \cup {""}}

\* The workers whose register request has yet to create its token.
Registering ==
    {q \in Procs : pc[q] \in {"register_count", "register_user",
                               "register_create", "register_profile",
                               "register_purge", "register_token"}}

\* The request arrives: parsing, validation and the rate limiter's count.
\* No more than MaxTokens tokens are ever created.
api_auth_register(p, requests) ==
    /\ Free(p)
    /\ \E r \in requests :
          LET email == Normal(r.email)
          IN  /\ args' = [args EXCEPT ![p] =
                    [NoArgs EXCEPT !.op = "register", !.client = r.client,
                                   !.email = r.email, !.password = r.password,
                                   !.pin = r.pin]]
              /\ IF email = "" \/ ~ValidEmail(email) \/ r.password = ""
                 THEN Return(p, Status(400))
                 ELSE IF attempts["register"] >= RegisterLimit
                 THEN Return(p, Status(429))
                 ELSE /\ minted + Cardinality(Registering) < MaxTokens
                      /\ loc' = [loc EXCEPT ![p] =
                            [NoLoc EXCEPT !.user = email,
                                          !.attempts = attempts["register"]]]
                      /\ Goto(p, "register_count")
                      /\ UNCHANGED resp
    /\ UNCHANGED <<now, sharing, auth>>

\* cache.set(throttle_key, attempts + 1, timeout=60 * 10)
RegisterCount(p) ==
    /\ pc[p] = "register_count"
    /\ attempts' = [attempts EXCEPT !["register"] = loc[p].attempts + 1]
    /\ Goto(p, "register_user")
    /\ UNCHANGED <<now, sharing, args, loc, resp, users, profiles, tokens,
                   minted, logins>>

\* User.objects.filter(username=email).first(); without a user, one is
\* saved with an unusable password (the username is unique: the save of a
\* second one raises).
RegisterUser(p) ==
    /\ pc[p] = "register_user"
    /\ IF loc[p].user \in DOMAIN users
       THEN /\ Goto(p, "register_profile")
            /\ UNCHANGED <<loc, resp>>
       ELSE /\ Goto(p, "register_create")
            /\ UNCHANGED <<loc, resp>>
    /\ UNCHANGED <<now, sharing, args, auth>>

\* The user saved with the password of the request.
RegisterCreateWithPassword(p) ==
    /\ pc[p] = "register_create"
    /\ loc[p].user \notin DOMAIN users
    /\ users' = Put(users, loc[p].user,
          [password |-> make_password(args[p].password), is_active |-> TRUE])
    /\ Goto(p, "register_profile")
    /\ UNCHANGED <<now, sharing, args, loc, resp, profiles, tokens, minted,
                   logins, attempts>>

RegisterCreate(p) ==
    /\ pc[p] = "register_create"
    /\ IF loc[p].user \in DOMAIN users
       THEN /\ Return(p, Status(500))
            /\ UNCHANGED users
       ELSE /\ users' = Put(users, loc[p].user,
                  [password |-> UnusablePassword, is_active |-> TRUE])
            /\ Goto(p, "register_profile")
            /\ UNCHANGED <<loc, resp>>
    /\ UNCHANGED <<now, sharing, args, profiles, tokens, minted, logins,
                   attempts>>

\* _get_or_create_profile(user)
RegisterProfile(p) ==
    /\ pc[p] = "register_profile"
    /\ profiles' = WithProfile(loc[p].user)
    /\ Goto(p, "register_purge")
    /\ UNCHANGED <<now, sharing, args, loc, resp, users, tokens, minted,
                   logins, attempts>>

\* EmailVerificationToken.objects.filter(user=user, used_at__isnull=True)
\* .delete()
RegisterPurge(p) ==
    /\ pc[p] = "register_purge"
    /\ tokens' = Remove(tokens, {t \in DOMAIN tokens :
                                    /\ tokens[t].user = loc[p].user
                                    /\ tokens[t].used_at = Never})
    /\ Goto(p, "register_token")
    /\ UNCHANGED <<now, sharing, args, loc, resp, users, profiles, minted,
                   logins, attempts>>

\* EmailVerificationToken.objects.create(...): a new token with the hashes
\* of the password and of the PIN, if one was sent.
RegisterToken(p) ==
    /\ pc[p] = "register_token"
    /\ LET token_obj ==
               [token |-> minted + 1,
                user |-> loc[p].user,
                pending_password_hash |-> make_password(args[p].password),
                pending_pin_hash |-> IF args[p].pin # ""
                                     THEN make_password(args[p].pin)
                                     ELSE NoHash,
                created_at |-> now,
                used_at |-> Never]
       IN  /\ minted' = minted + 1
           /\ tokens' = Put(tokens, minted + 1, token_obj)
           /\ loc' = [loc EXCEPT ![p].token_obj = token_obj]
    /\ Goto(p, "register_send")
    /\ UNCHANGED <<now, sharing, args, resp, users, profiles, logins,
                   attempts>>

\* _send_verification_email(...) returns: the mail with the token is sent.
RegisterSend(p) ==
    /\ pc[p] = "register_send"
    /\ Return(p, Status(200))
    /\ UNCHANGED <<now, sharing, args, auth>>

\* _send_verification_email(...) raises.
RegisterSendFails(p) ==
    /\ pc[p] = "register_send"
    /\ Goto(p, "register_undo")
    /\ UNCHANGED <<now, sharing, args, loc, resp, auth>>

\* except Exception: token_obj.delete(), and the 502.
RegisterUndo(p) ==
    /\ pc[p] = "register_undo"
    /\ tokens' = Remove(tokens, {loc[p].token_obj.token})
    /\ Return(p, Status(502))
    /\ UNCHANGED <<now, sharing, args, users, profiles, minted, logins,
                   attempts>>

\* The verify requests clients send: the link of a mail, or a guess.
VerifyRequests(browsers) ==
    {[client |-> b, token |-> t] : b \in browsers, t \in NoToken..MaxTokens}

\* What verify_email_view does once the profile is verified: the pending
\* hashes are applied, then the login.
VerifyApply(p, l) ==
    /\ loc' = [loc EXCEPT ![p] = l]
    /\ Goto(p, IF l.token_obj.pending_password_hash # NoHash
               THEN "verify_password"
               ELSE IF l.token_obj.pending_pin_hash # NoHash
               THEN "verify_pin"
               ELSE "verify_login")
    /\ UNCHANGED resp

\* The request arrives: the token is looked up and tested.
verify_email_view(p, requests) ==
    /\ Free(p)
    /\ \E r \in requests :
          /\ args' = [args EXCEPT ![p] =
                [NoArgs EXCEPT !.op = "verify", !.client = r.client,
                               !.token = r.token]]
          /\ IF \/ r.token \notin DOMAIN tokens
                \/ tokens[r.token].used_at # Never
                \/ is_expired(tokens[r.token],
                              DSHARE_EMAIL_TOKEN_MAX_AGE_SECONDS)
             THEN Return(p, [Status(302) EXCEPT !.location = "home"])
             ELSE /\ loc' = [loc EXCEPT ![p] =
                        [NoLoc EXCEPT !.token_obj = tokens[r.token],
                                      !.user = tokens[r.token].user]]
                  /\ Goto(p, "verify_used")
                  /\ UNCHANGED resp
    /\ UNCHANGED <<now, sharing, auth>>

\* now = timezone.now(); token_obj.used_at = now;
\* token_obj.save(update_fields=["used_at"]) (it raises when the row is gone)
VerifyUsed(p) ==
    /\ pc[p] = "verify_used"
    /\ LET token == loc[p].token_obj.token
       IN  IF token \in DOMAIN tokens
           THEN /\ tokens' = [tokens EXCEPT ![token].used_at = now]
                /\ loc' = [loc EXCEPT ![p].at = now,
                                      ![p].token_obj.used_at = now]
                /\ Goto(p, "verify_profile")
                /\ UNCHANGED resp
           ELSE /\ Return(p, Status(500))
                /\ UNCHANGED tokens
    /\ UNCHANGED <<now, sharing, args, users, profiles, minted, logins,
                   attempts>>

\* profile = _get_or_create_profile(token_obj.user)
VerifyProfile(p) ==
    /\ pc[p] = "verify_profile"
    /\ profiles' = WithProfile(loc[p].user)
    /\ LET l == [loc[p] EXCEPT !.profile = WithProfile(loc[p].user)[loc[p].user]]
       IN  IF l.profile.email_verified_at = Never
           THEN /\ loc' = [loc EXCEPT ![p] = l]
                /\ Goto(p, "verify_verified")
                /\ UNCHANGED resp
           ELSE VerifyApply(p, l)
    /\ UNCHANGED <<now, sharing, args, users, tokens, minted, logins,
                   attempts>>

\* profile.email_verified_at = now;
\* profile.save(update_fields=["email_verified_at"])
VerifyVerified(p) ==
    /\ pc[p] = "verify_verified"
    /\ profiles' = [profiles EXCEPT ![loc[p].user].email_verified_at = loc[p].at]
    /\ VerifyApply(p, [loc[p] EXCEPT !.profile.email_verified_at = loc[p].at])
    /\ UNCHANGED <<now, sharing, args, users, tokens, minted, logins,
                   attempts>>

\* token_obj.user.password = token_obj.pending_password_hash;
\* token_obj.user.save(update_fields=["password"])
VerifyPassword(p) ==
    /\ pc[p] = "verify_password"
    /\ users' = [users EXCEPT ![loc[p].user].password =
                     loc[p].token_obj.pending_password_hash]
    /\ Goto(p, IF loc[p].token_obj.pending_pin_hash # NoHash
               THEN "verify_pin" ELSE "verify_clear")
    /\ UNCHANGED <<now, sharing, args, loc, resp, profiles, tokens, minted,
                   logins, attempts>>

\* profile.pin_hash = token_obj.pending_pin_hash;
\* profile.save(update_fields=["pin_hash"])
VerifyPin(p) ==
    /\ pc[p] = "verify_pin"
    /\ profiles' = [profiles EXCEPT ![loc[p].user].pin_hash =
                        loc[p].token_obj.pending_pin_hash]
    /\ Goto(p, "verify_clear")
    /\ UNCHANGED <<now, sharing, args, loc, resp, users, tokens, minted,
                   logins, attempts>>

\* if did_apply: the pending hashes of the token are emptied and saved (the
\* save raises when the row is gone).
VerifyClear(p) ==
    /\ pc[p] = "verify_clear"
    /\ LET token == loc[p].token_obj.token
       IN  IF token \in DOMAIN tokens
           THEN /\ tokens' = [tokens EXCEPT
                      ![token].pending_password_hash = NoHash,
                      ![token].pending_pin_hash = NoHash]
                /\ Goto(p, "verify_login")
                /\ UNCHANGED <<loc, resp>>
           ELSE /\ Return(p, Status(500))
                /\ UNCHANGED tokens
    /\ UNCHANGED <<now, sharing, args, users, profiles, minted, logins,
                   attempts>>

\* login(request, token_obj.user, backend=...) and the redirect.
VerifyLogin(p) ==
    /\ pc[p] = "verify_login"
    /\ logins' = [logins EXCEPT ![args[p].client] = loc[p].user]
    /\ Return(p, [Status(302) EXCEPT !.location = "home?verified=1"])
    /\ UNCHANGED <<now, sharing, args, users, profiles, tokens, minted,
                   attempts>>

\* The login requests clients send.
LoginRequests(browsers, emails, secrets) ==
    {[client |-> b, email |-> e, secret |-> s] :
        b \in browsers, e \in emails, s \in secrets \cup {""}}

\* The handler goes on to count a failed login and to answer with status.
LoginFail(p, l, status) ==
    /\ loc' = [loc EXCEPT ![p] = [l EXCEPT !.status = status]]
    /\ Goto(p, "login_count")
    /\ UNCHANGED resp

\* The request arrives: parsing, validation and the rate limiter's count.
api_auth_password_login(p, requests) ==
    /\ Free(p)
    /\ \E r \in requests :
          LET email == Normal(r.email)
          IN  /\ args' = [args EXCEPT ![p] =
                    [NoArgs EXCEPT !.op = "login", !.client = r.client,
                                   !.email = r.email, !.secret = r.secret]]
              /\ IF email = "" \/ ~ValidEmail(email)
                 THEN Return(p, Status(400))
                 ELSE IF attempts["login_fail"] >= LoginFailLimit
                 THEN Return(p, Status(429))
                 ELSE IF r.secret = ""
                 THEN Return(p, Status(400))
                 ELSE /\ loc' = [loc EXCEPT ![p] =
                            [NoLoc EXCEPT !.user = email,
                                          !.attempts = attempts["login_fail"]]]
                      /\ Goto(p, "login_user")
                      /\ UNCHANGED resp
    /\ UNCHANGED <<now, sharing, auth>>

\* user = User.objects.filter(username=email).first()
LoginUser(p) ==
    /\ pc[p] = "login_user"
    /\ IF loc[p].user \notin DOMAIN users \/ ~users[loc[p].user].is_active
       THEN LoginFail(p, loc[p], 401)
       ELSE /\ Goto(p, "login_authenticate")
            /\ UNCHANGED <<loc, resp>>
    /\ UNCHANGED <<now, sharing, args, auth>>

\* auth_user = authenticate(request, username=email, password=secret)
LoginAuthenticate(p) ==
    /\ pc[p] = "login_authenticate"
    /\ IF authenticate(loc[p].user, args[p].secret)
       THEN /\ loc' = [loc EXCEPT ![p].auth_user = loc[p].user]
            /\ Goto(p, "login_profile")
       ELSE /\ Goto(p, "login_pin")
            /\ UNCHANGED loc
    /\ UNCHANGED <<now, sharing, args, resp, auth>>

\* if auth_user is None: the PIN of the user's profile is tried.
LoginPin(p) ==
    /\ pc[p] = "login_pin"
    /\ profiles' = WithProfile(loc[p].user)
    /\ LET profile == WithProfile(loc[p].user)[loc[p].user]
       IN  IF \/ profile.pin_hash = NoHash
              \/ ~check_password(args[p].secret, profile.pin_hash)
           THEN LoginFail(p, loc[p], 401)
           ELSE /\ loc' = [loc EXCEPT ![p].auth_user = loc[p].user]
                /\ Goto(p, "login_profile")
                /\ UNCHANGED resp
    /\ UNCHANGED <<now, sharing, args, users, tokens, minted, logins,
                   attempts>>

\* The profile fetched and email_verified_at not tested.
LoginProfileUntested(p) ==
    /\ pc[p] = "login_profile"
    /\ profiles' = WithProfile(loc[p].auth_user)
    /\ Goto(p, "login_session")
    /\ UNCHANGED <<now, sharing, args, loc, resp, users, tokens, minted,
                   logins, attempts>>

\* profile = _get_or_create_profile(auth_user) and the test of
\* email_verified_at.
LoginProfile(p) ==
    /\ pc[p] = "login_profile"
    /\ profiles' = WithProfile(loc[p].auth_user)
    /\ LET profile == WithProfile(loc[p].auth_user)[loc[p].auth_user]
       IN  IF profile.email_verified_at = Never
           THEN LoginFail(p, loc[p], 403)
           ELSE /\ Goto(p, "login_session")
                /\ UNCHANGED <<loc, resp>>
    /\ UNCHANGED <<now, sharing, args, users, tokens, minted, logins,
                   attempts>>

\* cache.set(throttle_key, attempts + 1, timeout=60 * 10) and the failure.
LoginCount(p) ==
    /\ pc[p] = "login_count"
    /\ attempts' = [attempts EXCEPT !["login_fail"] = loc[p].attempts + 1]
    /\ Return(p, Status(loc[p].status))
    /\ UNCHANGED <<now, sharing, args, users, profiles, tokens, minted,
                   logins>>

\* login(request, auth_user)
LoginSession(p) ==
    /\ pc[p] = "login_session"
    /\ logins' = [logins EXCEPT ![args[p].client] = loc[p].auth_user]
    /\ Goto(p, "login_reset")
    /\ UNCHANGED <<now, sharing, args, loc, resp, users, profiles, tokens,
                   minted, attempts>>

\* cache.delete(throttle_key) and the ok.
LoginReset(p) ==
    /\ pc[p] = "login_reset"
    /\ attempts' = [attempts EXCEPT !["login_fail"] = 0]
    /\ Return(p, Status(200))
    /\ UNCHANGED <<now, sharing, args, users, profiles, tokens, minted,
                   logins>>

\* logout(request)
api_auth_logout(p, browsers) ==
    /\ Free(p)
    /\ \E b \in browsers :
          /\ args' = [args EXCEPT ![p] =
                [NoArgs EXCEPT !.op = "logout", !.client = b]]
          /\ logins' = [logins EXCEPT ![b] = NoUser]
    /\ Return(p, Status(200))
    /\ UNCHANGED <<now, sharing, users, profiles, tokens, minted, attempts>>

(***************************************************************************)
(* The clock and the specifications.                                       *)
(***************************************************************************)
\* The clock advances, up to limit.
Advance(limit) ==
    /\ now < limit
    /\ now' = now + 1
    /\ UNCHANGED <<auth, sessions, issued, disk, slots, pc, args, loc, resp,
                   history>>

Tick == Advance(MaxTime)

\* The steps of the upload handlers for the clients e: their start, chunk
\* and complete requests are e.starts, e.chunks and e.completes, no more than
\* e.quota sessions are created.
Upload(p, e) ==
    \/ api_upload_start(p, e.starts)
    \/ _cleanup_expired_upload_sessions(p)
    \/ StartLookup(p, e.quota)
    \/ StartResume(p)
    \/ api_upload_chunk(p, e.chunks)
    \/ ChunkMkdir(p)
    \/ ChunkOpen(p)
    \/ ChunkWrite(p)
    \/ ChunkSave(p)
    \/ api_upload_complete(p, e.completes)
    \/ CompleteOpen(p)
    \/ CompleteCopy(p)
    \/ CompleteGetsize(p)
    \/ CompleteShare(p)
    \/ CompleteDeleteOld(p)
    \/ CompleteStore(p)
    \/ CompleteSaveShare(p)
    \/ CompleteRemoveTemp(p)
    \/ CompleteRmtree(p)
    \/ CompleteDeleteRow(p)
    \/ Respond(p)

\* The steps taken only for what has expired.
Expiry(p) ==
    \/ _delete_upload_session_files(p)
    \/ ExpireDelete(p)
    \/ _maybe_expire_share(p)

\* The steps of the handlers of the share slot for the clients e: the
\* requests come from e.callers, the upload requests are e.posts.
Slot(p, e) ==
    \/ upload_view(p, e.posts)
    \/ UploadDeleteOld(p)
    \/ UploadStore(p)
    \/ UploadSave(p)
    \/ download_view(p, e.callers)
    \/ api_share_text(p, e.callers)
    \/ api_share_clear(p, e.callers)
    \/ ClearDelete(p)
    \/ ClearSave(p)

\* Spec: one worker, so one request at a time; no request outlives a time to
\* live; user 1 uploads files of three bytes, the other callers send chunk
\* and complete requests too.
SeqClients ==
    [starts |-> StartRequests({1}, Long),
     chunks |-> ChunkRequests(Callers, Bodies),
     completes |-> CompleteRequests(Callers),
     quota |-> MaxSessions]

SeqNext == Upload(1, SeqClients)

Spec == Init /\ [][SeqNext]_vars

\* SpecOwners: one worker, no request outlives a time to live; every caller
\* starts uploads of every kind, the chunks are of one kind.
OwnersClients ==
    [starts |-> StartRequests(Callers, Uploads),
     chunks |-> ChunkRequests(Callers, {<<1>>}),
     completes |-> CompleteRequests(Callers),
     quota |-> MaxSessions]

OwnersNext == Upload(1, OwnersClients)

SpecOwners == Init /\ [][OwnersNext]_vars

\* SpecClock: one worker, while the clock advances; the anonymous caller
\* and user 1 upload, and send start requests without a filename or a size.
Short == {u \in Uploads : u[1] = "a" /\ u[2] \in {2, 3} /\ u[3] = 1}

Invalid == {u \in Uploads : u[1] = "" \/ u[2] <= 0}

ClockClients ==
    [starts |-> StartRequests({Anon, 1}, Short \cup Invalid),
     chunks |-> ChunkRequests({Anon, 1}, {<<1>>, <<1, 2>>}),
     completes |-> CompleteRequests({Anon, 1}),
     quota |-> MaxSessions]

ClockNext == Tick \/ Upload(1, ClockClients) \/ Expiry(1)

SpecClock == Init /\ [][ClockNext]_vars

\* SpecConc: the workers serve requests at once, their steps interleave; no
\* request outlives a time to live; the anonymous caller uploads one file of
\* two chunks.
Pair == {u \in Uploads : u[1] = "a" /\ u[2] = 2 /\ u[3] = 1}

ConcClients ==
    [starts |-> StartRequests({Anon}, Pair),
     chunks |-> ChunkRequests({Anon}, {<<1>>, <<2>>}),
     completes |-> CompleteRequests({Anon}),
     quota |-> ConcSessions]

Next == \E p \in Procs : Upload(p, ConcClients)

SpecConc == Init /\ [][Next]_vars

\* SpecReader: worker 1 serves the uploads of the anonymous caller, files
\* of two chunks, one request at a time; worker 2 serves reads of the public
\* slot while worker 1 is at work; no request outlives a time to live.
ReaderClients ==
    [starts |-> StartRequests({Anon}, Pair),
     chunks |-> ChunkRequests({Anon}, {<<1>>, <<2>>}),
     completes |-> CompleteRequests({Anon}),
     quota |-> MaxSessions]

ReaderNext ==
    \/ Upload(1, ReaderClients)
    \/ download_view(2, {Anon})
    \/ Respond(2)

SpecReader == Init /\ [][ReaderNext]_vars

\* SpecFaults: one worker serves the uploads of the anonymous caller, files of
\* two chunks, while the storage and the database may refuse what complete
\* delivers to the slot.
FaultsClients ==
    [starts |-> StartRequests({Anon}, Pair),
     chunks |-> ChunkRequests({Anon}, {<<1>>, <<1, 2>>}),
     completes |-> CompleteRequests({Anon}),
     quota |-> MaxSessions]

FaultsNext ==
    \/ Upload(1, FaultsClients)
    \/ CompleteStoreFails(1)
    \/ CompleteSaveShareFails(1)

SpecFaults == Init /\ [][FaultsNext]_vars

\* SpecChunks: the arithmetic of api_upload_start alone (lines 691-700 and
\* 735), for start requests of every size from 1 to MaxSize and one and two
\* bytes around the default chunk size, with every chunk size from -1 to
\* MaxChunkSize.  args[1] is the request as sent, resp[1] holds the chunk
\* size and the number of chunks computed for it.
TotalSizes == (1..MaxSize) \cup {DefaultChunkSize - 1, DefaultChunkSize,
                                  DefaultChunkSize + 1, 2 * DefaultChunkSize + 1}

ChunkSizes == -1..MaxChunkSize

StartArithmetic ==
    /\ \E total_size \in TotalSizes, requested \in ChunkSizes :
          LET chunk_size == EffectiveChunkSize(requested)
              total_chunks == TotalChunks(total_size, chunk_size)
          IN  /\ args' = [args EXCEPT ![1] =
                    [NoArgs EXCEPT !.op = "start", !.filename = "a",
                                   !.size = total_size,
                                   !.chunk_size = requested]]
              /\ resp' = [resp EXCEPT ![1] =
                    [Status(200) EXCEPT !.chunk_size = chunk_size,
                                        !.total_chunks = total_chunks]]
    /\ UNCHANGED <<auth, now, sessions, issued, disk, slots, pc, loc, history>>

SpecChunks == Init /\ [][StartArithmetic]_vars

\* SpecSlot: one worker serves the share slots of the anonymous caller and
\* of user 1 - whole files, texts, reads, clears - and the upload in chunks
\* of a file of one chunk by the anonymous caller, one request at a time,
\* while the clock advances past the time to live of either slot.
One == {<<"a", 1, 1>>}

SlotClients ==
    [starts |-> StartRequests({Anon}, One),
     chunks |-> ChunkRequests({Anon, 1}, {<<1>>}),
     completes |-> CompleteRequests({Anon, 1}),
     quota |-> SlotSessions,
     callers |-> {Anon, 1},
     posts |-> UploadRequests({Anon, 1}, {<<"a", <<2>>>>}, Texts)]

SlotNext ==
    \/ Advance(MaxSlotTime)
    \/ Upload(1, SlotClients)
    \/ Slot(1, SlotClients)
    \/ Expiry(1)

SpecSlot == Init /\ [][SlotNext]_vars

\* SpecSlotConc: the workers serve the public slot at once - whole files,
\* texts, reads and clears by either worker, the upload in chunks of a file
\* of one chunk by worker 1 - and their steps interleave at every access;
\* between the requests the clock advances, past the time to live of the
\* slot.
Between == \A p \in Procs : pc[p] = "idle"

SlotConcClients ==
    [starts |-> StartRequests({Anon}, One),
     chunks |-> ChunkRequests({Anon}, {<<1>>}),
     completes |-> CompleteRequests({Anon}),
     quota |-> SlotSessions,
     callers |-> {Anon},
     posts |-> UploadRequests({Anon}, {<<"a", <<2>>>>}, {"hi"})]

SlotConcNext ==
    \/ Between /\ Tick
    \/ Upload(1, SlotConcClients)
    \/ Respond(2)
    \/ \E p \in Procs :
          \/ Slot(p, SlotConcClients)
          \/ Expiry(p)

SpecSlotConc == Init /\ [][SlotConcNext]_vars

\* SpecScopes: one worker serves the share slots of the anonymous caller
\* and of both users - whole files, texts, reads, clears - and the uploads
\* in chunks of files of one chunk by the anonymous caller and user 1, one
\* request at a time; no request outlives a time to live.
ScopesClients ==
    [starts |-> StartRequests({Anon, 1}, One),
     chunks |-> ChunkRequests(Callers, {<<1>>}),
     completes |-> CompleteRequests(Callers),
     quota |-> MaxSessions,
     callers |-> Callers,
     posts |-> UploadRequests(Callers, {<<"a", <<2>>>>}, {"hi"})]

ScopesNext ==
    \/ Upload(1, ScopesClients)
    \/ Slot(1, ScopesClients)

SpecScopes == Init /\ [][ScopesNext]_vars

\* SpecSweep: the workers serve the uploads of the anonymous caller, files of
\* one chunk, at once, while the clock advances past the time to live of the
\* upload sessions: the sweep of a start request interleaves with the steps
\* of a chunk upload, of a complete request or of another sweep.
SweepClients ==
    [starts |-> StartRequests({Anon}, One),
     chunks |-> ChunkRequests({Anon}, {<<1>>}),
     completes |-> CompleteRequests({Anon}),
     quota |-> ConcSessions]

SweepNext ==
    \/ Tick
    \/ \E p \in Procs : Upload(p, SweepClients) \/ Expiry(p)

SpecSweep == Init /\ [][SweepNext]_vars

\* SpecGap: worker 1 serves the start requests of the anonymous caller, for
\* files of two chunks, and their sweep; worker 2 serves the chunk uploads
\* and the complete requests at the same time; the clock advances past the
\* time to live of the upload sessions.  One session is created, so the slot
\* is empty when a complete request delivers to it.
GapClients ==
    [starts |-> StartRequests({Anon}, Pair),
     chunks |-> ChunkRequests({Anon}, {<<1>>}),
     completes |-> CompleteRequests({Anon}),
     quota |-> ConcSessions]

GapNext ==
    \/ Tick
    \/ api_upload_start(1, GapClients.starts)
    \/ _delete_upload_session_files(1)
    \/ _cleanup_expired_upload_sessions(1)
    \/ StartLookup(1, GapClients.quota)
    \/ StartResume(1)
    \/ Respond(1)
    \/ api_upload_chunk(2, GapClients.chunks)
    \/ ChunkMkdir(2)
    \/ ChunkOpen(2)
    \/ ChunkWrite(2)
    \/ ChunkSave(2)
    \/ api_upload_complete(2, GapClients.completes)
    \/ CompleteOpen(2)
    \/ CompleteCopy(2)
    \/ CompleteGetsize(2)
    \/ CompleteShare(2)
    \/ CompleteStore(2)
    \/ CompleteSaveShare(2)
    \/ CompleteRemoveTemp(2)
    \/ CompleteRmtree(2)
    \/ CompleteDeleteRow(2)
    \/ Respond(2)

SpecGap == Init /\ [][GapNext]_vars

\* SpecLive: worker 1 serves a client, the anonymous caller, that uploads a
\* file of two chunks: it sends start requests with the id of its session,
\* chunk uploads for the indices its session has not received, and a complete
\* request once none is missing.  Worker 2 serves the start requests of user
\* 1, with their sweep, at the same time.  The clock advances as long as the
\* client's session does not outlive the time to live of the upload sessions.
\* The handlers run to their end and the client keeps sending its requests.
Own == {id \in DOMAIN sessions : sessions[id].is_public}

ClientStarts ==
    {[caller |-> Anon, filename |-> "a", size |-> 2, chunk_size |-> 1,
      upload_id |-> i] : i \in IF Own = {} THEN {NoId} ELSE Own}

ClientChunks ==
    {[caller |-> Anon, upload_id |-> i, index |-> k, body |-> <<1>>] :
        i \in Own, k \in UNION {Range(Missing(sessions[j])) : j \in Own}}

ClientCompletes ==
    {[caller |-> Anon, upload_id |-> i] :
        i \in {j \in Own : Missing(sessions[j]) = <<>>}}

\* The start requests of user 1, for a file of one chunk.
OtherStarts == StartRequests({1}, One)

\* The steps of the handlers worker p runs once a request has arrived.
Serve(p, quota) ==
    \/ _delete_upload_session_files(p)
    \/ _cleanup_expired_upload_sessions(p)
    \/ StartLookup(p, quota)
    \/ StartResume(p)
    \/ ChunkMkdir(p)
    \/ ChunkOpen(p)
    \/ ChunkWrite(p)
    \/ ChunkSave(p)
    \/ CompleteOpen(p)
    \/ CompleteCopy(p)
    \/ CompleteGetsize(p)
    \/ CompleteShare(p)
    \/ CompleteDeleteOld(p)
    \/ CompleteStore(p)
    \/ CompleteSaveShare(p)
    \/ CompleteRemoveTemp(p)
    \/ CompleteRmtree(p)
    \/ CompleteDeleteRow(p)
    \/ ExpireDelete(p)
    \/ _maybe_expire_share(p)
    \/ Respond(p)

LiveTick ==
    /\ Tick
    /\ \A id \in Own :
          sessions[id].updated_at >= now' - DSHARE_UPLOAD_SESSION_TTL_SECONDS

LiveNext ==
    \/ LiveTick
    \/ api_upload_start(1, ClientStarts)
    \/ api_upload_chunk(1, ClientChunks)
    \/ api_upload_complete(1, ClientCompletes)
    \/ Serve(1, MaxSessions)
    \/ api_upload_start(2, OtherStarts)
    \/ Serve(2, ConcSessions)

LiveFairness ==
    /\ WF_vars(Serve(1, MaxSessions))
    /\ WF_vars(Serve(2, ConcSessions))
    /\ SF_vars(api_upload_start(1, ClientStarts))
    /\ SF_vars(api_upload_chunk(1, ClientChunks))
    /\ SF_vars(api_upload_complete(1, ClientCompletes))

SpecLive == Init /\ [][LiveNext]_vars /\ LiveFairness

\* The steps of the handlers of the accounts for the clients e: the
\* requests come from the browsers e.browsers, the register, verify and
\* login requests are e.registers, e.verifies and e.logins.
Account(p, e) ==
    \/ api_auth_register(p, e.registers)
    \/ RegisterCount(p)
    \/ RegisterUser(p)
    \/ RegisterCreate(p)
    \/ RegisterProfile(p)
    \/ RegisterPurge(p)
    \/ RegisterToken(p)
    \/ RegisterSend(p)
    \/ RegisterSendFails(p)
    \/ RegisterUndo(p)
    \/ verify_email_view(p, e.verifies)
    \/ VerifyUsed(p)
    \/ VerifyProfile(p)
    \/ VerifyVerified(p)
    \/ VerifyPassword(p)
    \/ VerifyPin(p)
    \/ VerifyClear(p)
    \/ VerifyLogin(p)
    \/ api_auth_password_login(p, e.logins)
    \/ LoginUser(p)
    \/ LoginAuthenticate(p)
    \/ LoginPin(p)
    \/ LoginProfile(p)
    \/ LoginCount(p)
    \/ LoginSession(p)
    \/ LoginReset(p)
    \/ api_auth_logout(p, e.browsers)
    \/ Respond(p)

\* SpecAuth: one worker serves the accounts, one request at a time, while
\* the clock advances past the age at which a token expires; one browser
\* sends the requests, for one account, which is registered or is created
\* by the management shell between two requests.
Account1 == {"u@example.com"}

AuthClients ==
    [browsers |-> {1},
     registers |-> RegisterRequests({1}, RawEmails \ {"v@example.com"},
                                    Secrets),
     verifies |-> VerifyRequests({1}),
     logins |-> LoginRequests({1}, RawEmails \ {"v@example.com"}, Secrets)]

AuthNext ==
    \/ Tick
    \/ Between /\ create_user(Account1)
    \/ CacheTimeout
    \/ Account(1, AuthClients)

SpecAuth == Init /\ [][AuthNext]_vars

(***************************************************************************)
(* Properties.                                                             *)
(***************************************************************************)
\* The scope that owns a session: 0 for a public session, the user otherwise.
OwnerScope(session) == IF session.is_public THEN Anon ELSE session.user_id

Indexes(session) == 0..(session.total_chunks - 1)

\* The length of chunk i of total_size bytes cut at multiples of chunk_size.
CutLen(session, i) ==
    IF i < session.total_chunks - 1 THEN session.chunk_size
    ELSE session.total_size - session.chunk_size * (session.total_chunks - 1)

\* Every chunk of session id was answered ok, and the chunks are a string of
\* total_size bytes cut at multiples of chunk_size.
Uploaded(id) ==
    /\ acked[id] = Indexes(sessions[id])
    /\ \A i \in Indexes(sessions[id]) :
          Len(sent[<<id, i>>]) = CutLen(sessions[id], i)

\* The string the chunks of session id were cut from.
Original(id) ==
    LET cs == sessions[id].chunk_size
    IN  [k \in 1..sessions[id].total_size |->
            sent[<<id, (k - 1) \div cs>>][((k - 1) % cs) + 1]]

\* Worker p takes a request in this step.
Arrives(p) == pc[p] = "idle" /\ pc'[p] # "idle"
\* Worker p answers, in this step, a request it took in an earlier one.
Answers(p) == pc[p] \notin {"idle", "done"} /\ pc'[p] = "done"

\* C1: when every chunk of a session was stored by an ok chunk upload, in
\* whatever order, the chunks being a string cut at multiples of the chunk
\* size, a complete request of the owner is accepted and answered ok, and
\* the slot of the owner then holds a file that is that string, byte for
\* byte.
C1_AnyOrderAssembles ==
    [][\A p \in Procs :
        LET a == args'[p]
            id == a.upload_id
            ready == /\ a.op = "complete"
                     /\ id \in DOMAIN sessions
                     /\ OwnerScope(sessions[id]) = a.caller
                     /\ Uploaded(id)
        IN  /\ Arrives(p) /\ ready => pc'[p] = "complete_open"
            /\ Answers(p) /\ ready =>
                  /\ resp'[p].status = 200
                  /\ shares'[a.caller].file \in DOMAIN storage'
                  /\ storage'[shares'[a.caller].file] = Original(id)]_vars

\* A complete request was answered ok for three chunks of one byte, not all
\* the same, that were uploaded out of order; the slot holds them in order.
C1_Witness ==
    \E p \in Procs :
        LET id == args[p].upload_id
        IN  /\ pc[p] = "done"
            /\ args[p].op = "complete"
            /\ resp[p].status = 200
            /\ "disorder" \in flags[id]
            /\ acked[id] = {0, 1, 2}
            /\ sent[<<id, 0>>] # sent[<<id, 2>>]
            /\ shares[args[p].caller].file \in DOMAIN storage
            /\ storage[shares[args[p].caller].file] =
                  sent[<<id, 0>>] \o sent[<<id, 1>>] \o sent[<<id, 2>>]
            /\ Len(storage[shares[args[p].caller].file]) = 3

Ascending(s) == \A i, j \in DOMAIN s : i < j => s[i] < s[j]

\* C2: a complete request of the owner for a session whose received indices
\* are not all of 0..total_chunks-1 is answered 409 with exactly the indices
\* not received, in ascending order; the session rows, the chunk files and
\* the slots stay as they are.
C2_MissingChunksConflict ==
    [][\A p \in Procs :
        LET a == args'[p]
            id == a.upload_id
        IN  (/\ Arrives(p)
             /\ a.op = "complete"
             /\ id \in DOMAIN sessions
             /\ OwnerScope(sessions[id]) = a.caller
             /\ Range(sessions[id].received_chunks) # Indexes(sessions[id])
             /\ Range(sessions[id].received_chunks) \subseteq Indexes(sessions[id]))
            => /\ pc'[p] = "done"
               /\ resp'[p].status = 409
               /\ Ascending(resp'[p].missing_chunks)
               /\ Range(resp'[p].missing_chunks) =
                     Indexes(sessions[id]) \ Range(sessions[id].received_chunks)
               /\ UNCHANGED <<sessions, chunkDirs, chunkFiles, shares, storage>>]_vars

\* A complete request was answered 409 with missing indices 1 and 2, index
\* 0 being the one received.
C2_Witness ==
    \E p \in Procs :
        /\ pc[p] = "done"
        /\ args[p].op = "complete"
        /\ resp[p].status = 409
        /\ resp[p].missing_chunks = <<1, 2>>
        /\ sessions[args[p].upload_id].received_chunks = <<0>>

\* The request matches the session row s: the scope, the filename, the
\* size and the chunk size are the same.
Matches(a, s) ==
    /\ s.id # NoId
    /\ OwnerScope(s) = a.caller
    /\ s.filename = a.filename
    /\ s.total_size = a.size
    /\ s.chunk_size = a.chunk_size

\* The row s has not outlived the time to live of upload sessions at time t.
Fresh(s, t) ==
    \/ DSHARE_UPLOAD_SESSION_TTL_SECONDS <= 0
    \/ s.updated_at >= t - DSHARE_UPLOAD_SESSION_TTL_SECONDS

\* A start request that named a session stored when it arrived (loc.named),
\* and matches it, is answered with that session's id and with the indices
\* chunk uploads were answered ok for, ascending.
Resumes(p) ==
    /\ resp'[p].status = 200
    /\ resp'[p].upload_id = loc[p].named.id
    /\ Ascending(resp'[p].received_chunks)
    /\ Range(resp'[p].received_chunks) = acked[loc[p].named.id]

\* C3, as stated: a start request that names a stored session and matches
\* it is answered with that session's id and the indices uploaded so far.
C3_ResumeOfStored ==
    [][\A p \in Procs :
        (/\ Answers(p)
         /\ args[p].op = "start"
         /\ Matches(args[p], loc[p].named))
        => Resumes(p)]_vars

\* C3, amended: a start request that names a stored session that has not
\* outlived the time to live of upload sessions when the request arrives,
\* and matches it, is answered with that session's id and the indices
\* chunk uploads were answered ok for, ascending.
C3_ResumeOfFresh ==
    [][\A p \in Procs :
        (/\ Answers(p)
         /\ args[p].op = "start"
         /\ Matches(args[p], loc[p].named)
         /\ Fresh(loc[p].named, loc[p].at))
        => Resumes(p)]_vars

\* A start request was answered with the id it named and the indices 0 and
\* 2 of three, index 2 having been uploaded before index 0, some time after
\* the session was created.
C3_Witness ==
    \E p \in Procs :
        LET id == args[p].upload_id
        IN  /\ pc[p] = "done"
            /\ args[p].op = "start"
            /\ resp[p].status = 200
            /\ resp[p].upload_id = id
            /\ resp[p].received_chunks = <<0, 2>>
            /\ resp[p].total_chunks = 3
            /\ "disorder" \in flags[id]
            /\ now > 0

\* C4: a start request is answered with a session that was stored only when
\* the request names it and matches it; every accepted start request that
\* names no session, or an unknown one, or one it does not match, is
\* answered with a session just created, whose id no session has had and
\* whose received indices are empty.
C4_ReuseOnlyOnMatch ==
    [][\A p \in Procs :
        LET a == args[p]
            match == a.upload_id \in DOMAIN sessions
                        /\ Matches(a, Load(a.upload_id))
            id == resp'[p].upload_id
        IN  (Answers(p) /\ a.op = "start")
            => /\ resp'[p].status = 200
               /\ id \in DOMAIN sessions => match /\ id = a.upload_id
               /\ ~match => /\ id \notin DOMAIN sessions
                            /\ id \in DOMAIN sessions'
                            /\ id > issued
                            /\ resp'[p].received_chunks = <<>>
                            /\ sessions'[id].received_chunks = <<>>]_vars

\* A start request that named the session of another owner, which holds a
\* chunk, with the same filename, size and chunk size was answered with a
\* new id and no received indices.
C4_Witness ==
    \E p \in Procs :
        LET a == args[p]
        IN  /\ pc[p] = "done"
            /\ a.op = "start"
            /\ resp[p].status = 200
            /\ a.upload_id \in DOMAIN sessions
            /\ resp[p].upload_id # a.upload_id
            /\ resp[p].received_chunks = <<>>
            /\ OwnerScope(sessions[a.upload_id]) # a.caller
            /\ sessions[a.upload_id].filename = a.filename
            /\ sessions[a.upload_id].total_size = a.size
            /\ sessions[a.upload_id].chunk_size = a.chunk_size
            /\ sessions[a.upload_id].received_chunks # <<>>

RECURSIVE Concat(_, _, _)
\* The bodies last answered ok for the indices i..n-1 of session id, one
\* after the other.
Concat(id, i, n) ==
    IF i >= n THEN <<>> ELSE sent[<<id, i>>] \o Concat(id, i + 1, n)

\* C5: a chunk upload of the owner for an index already received is
\* accepted and answered ok, the received indices stay the same, the chunk
\* file of the index holds the new bytes; and a complete request answered ok
\* delivers the bodies last uploaded, in index order.
C5_ReuploadReplaces ==
    [][\A p \in Procs :
        LET a == args'[p]
            id == a.upload_id
            again == /\ a.op = "chunk"
                     /\ id \in DOMAIN sessions
                     /\ OwnerScope(sessions[id]) = a.caller
                     /\ a.index \in Range(sessions[id].received_chunks)
                     /\ a.body # NoChunk
                     /\ (a.index < sessions[id].total_chunks - 1
                            => Len(a.body) <= sessions[id].chunk_size)
        IN  /\ Arrives(p) /\ again => pc'[p] # "done"
            /\ Answers(p) /\ again =>
                  /\ resp'[p].status = 200
                  /\ sessions'[id].received_chunks = sessions[id].received_chunks
                  /\ resp'[p].received = Len(sessions[id].received_chunks)
                  /\ chunkFiles'[<<id, a.index>>] = a.body
            /\ (Answers(p) /\ a.op = "complete" /\ resp'[p].status = 200) =>
                  storage'[shares'[a.caller].file] =
                      Concat(id, 0, sessions[id].total_chunks)]_vars

\* A complete request was answered ok for a session of two chunks, one of
\* which was uploaded again with other bytes; the slot holds the bytes
\* uploaded last.
C5_Witness ==
    \E p \in Procs :
        LET id == args[p].upload_id
        IN  /\ pc[p] = "done"
            /\ args[p].op = "complete"
            /\ resp[p].status = 200
            /\ "replaced" \in flags[id]
            /\ acked[id] = {0, 1}
            /\ storage[shares[args[p].caller].file] =
                  sent[<<id, 0>>] \o sent[<<id, 1>>]

\* C6: when two chunk uploads for one session and two indices were served
\* at once and both were answered ok, the received indices of the session
\* contain both indices.
C6_NoLostIndex ==
    \A p, q \in Procs :
        LET id == args[p].upload_id
        IN  (/\ p # q
             /\ pc[p] = "done" /\ pc[q] = "done"
             /\ args[p].op = "chunk" /\ args[q].op = "chunk"
             /\ args[q].upload_id = id
             /\ args[p].index # args[q].index
             /\ resp[p].status = 200 /\ resp[q].status = 200
             /\ id \in DOMAIN sessions)
            => {args[p].index, args[q].index}
                  \subseteq Range(sessions[id].received_chunks)

\* C7: when two complete requests for one session were served at once and
\* one of them was answered ok, things are as after a single complete: the
\* slot's file is stored and is the chunks in index order, it is the only
\* blob, the session row, its chunk files and its temporary file are gone.
C7_TwoCompletesAsOne ==
    \A p, q \in Procs :
        LET id == args[p].upload_id
            file == shares[args[p].caller].file
        IN  (/\ p # q
             /\ pc[p] = "done" /\ pc[q] = "done"
             /\ args[p].op = "complete" /\ args[q].op = "complete"
             /\ args[q].upload_id = id
             /\ resp[p].status = 200)
            => /\ file \in DOMAIN storage
               /\ storage[file] = Concat(id, 0, Cardinality(acked[id]))
               /\ DOMAIN storage = {file}
               /\ id \notin DOMAIN sessions
               /\ id \notin chunkDirs
               /\ id \notin DOMAIN tmpFiles

\* C8: when a read of the slot is answered with a file, that file is in the
\* storage at the moment of the answer, whatever upload is under way.
C8_ReadersSeeStoredFile ==
    [][\A p \in Procs :
        (/\ Arrives(p)
         /\ args'[p].op = "download"
         /\ pc'[p] = "done"
         /\ resp'[p].file # NoFile)
        => resp'[p].file \in DOMAIN storage']_vars

\* C9: a chunk upload and a complete request for a stored session are
\* answered 403 exactly when the caller's scope is not the scope that owns
\* the session, and then the session rows, the chunk files and the slots
\* stay as they are.
C9_SameOwnershipCheck ==
    [][\A p \in Procs :
        LET a == args'[p]
            id == a.upload_id
            refused == pc'[p] = "done" /\ resp'[p].status = 403
        IN  (Arrives(p) /\ a.op \in {"chunk", "complete"}
                /\ id \in DOMAIN sessions)
            => IF OwnerScope(sessions[id]) = a.caller
               THEN ~refused
               ELSE /\ refused
                    /\ UNCHANGED <<sessions, chunkDirs, chunkFiles, tmpFiles,
                                   shares, storage>>]_vars

\* A complete request of a user for the session of another user, with every
\* chunk received, was answered 403.
C9_Witness ==
    \E p \in Procs :
        LET id == args[p].upload_id
        IN  /\ pc[p] = "done"
            /\ args[p].op = "complete"
            /\ resp[p].status = 403
            /\ args[p].caller \in Users
            /\ sessions[id].user_id \in Users \ {args[p].caller}
            /\ Len(sessions[id].received_chunks) = sessions[id].total_chunks

\* C10: a chunk upload is answered 404 when no session has its id, 400 when
\* its index is not one of 0..total_chunks-1, 413 when its index is below
\* total_chunks-1 and its body longer than chunk_size (the caller being the
\* owner in the last two cases); in each case no chunk file is written and
\* the session rows, received indices and updated_at included, stay as they
\* are.
C10_ChunkRefusals ==
    [][\A p \in Procs :
        LET a == args'[p]
            id == a.upload_id
            known == id \in DOMAIN sessions
            own == OwnerScope(sessions[id]) = a.caller
            refused(code) ==
                /\ pc'[p] = "done"
                /\ resp'[p].status = code
                /\ UNCHANGED <<sessions, chunkDirs, chunkFiles>>
        IN  (Arrives(p) /\ a.op = "chunk")
            => /\ (id # NoId /\ ~known) => refused(404)
               /\ (known /\ own /\ a.index \notin Indexes(sessions[id]))
                     => refused(400)
               /\ (/\ known /\ own /\ a.body # NoChunk
                    /\ a.index \in Indexes(sessions[id])
                    /\ a.index < sessions[id].total_chunks - 1
                    /\ Len(a.body) > sessions[id].chunk_size)
                     => refused(413)]_vars

\* A chunk upload of two bytes for index 0 of a session of chunk size 1,
\* made after the session was last updated, was answered 413; the chunk
\* file of index 0 is the one byte stored before.
C10_Witness ==
    \E p \in Procs :
        LET id == args[p].upload_id
        IN  /\ pc[p] = "done"
            /\ args[p].op = "chunk"
            /\ resp[p].status = 413
            /\ args[p].index = 0
            /\ Len(args[p].body) = 2
            /\ sessions[id].received_chunks = <<0>>
            /\ Len(chunkFiles[<<id, 0>>]) = 1
            /\ sessions[id].updated_at < now

\* A stored session that has outlived the time to live of upload sessions.
Stale(id) ==
    /\ DSHARE_UPLOAD_SESSION_TTL_SECONDS > 0
    /\ sessions[id].updated_at < now - DSHARE_UPLOAD_SESSION_TTL_SECONDS

\* C11: a start request without a filename or with a size <= 0 is answered
\* 400, one whose size exceeds the limit of its caller's scope (public or
\* authenticated) is answered 413, and in both cases the registry, the ids
\* given out and the chunk files are as before: nothing is created, changed
\* or swept.  A start request with a filename and a size from 1 to the limit,
\* the limit included, is not refused: it goes on to the sweep and, one
\* request being served at a time, is answered 200.
C11_StartRefusals ==
    [][\A p \in Procs :
        /\ (Arrives(p) /\ args'[p].op = "start") =>
              LET a == args'[p]
                  limit == IF a.caller = Anon
                           THEN DSHARE_PUBLIC_MAX_UPLOAD_BYTES
                           ELSE DSHARE_USER_MAX_UPLOAD_BYTES
                  refused(code) == /\ pc'[p] = "done"
                                   /\ resp'[p].status = code
                                   /\ UNCHANGED <<sessions, issued, disk>>
              IN  /\ (a.filename = "" \/ a.size <= 0) => refused(400)
                  /\ (a.filename # "" /\ a.size > limit) => refused(413)
                  /\ (a.filename # "" /\ a.size > 0 /\ a.size <= limit)
                        => pc'[p] # "done"
        /\ (Answers(p) /\ args[p].op = "start") => resp'[p].status = 200
      ]_vars

\* A start request of the anonymous caller for a size above the public limit
\* was answered 413 while a session that has outlived the time to live was
\* stored.
C11_Witness ==
    /\ pc[1] = "done"
    /\ args[1].op = "start"
    /\ args[1].caller = Anon
    /\ args[1].size = DSHARE_PUBLIC_MAX_UPLOAD_BYTES + 1
    /\ resp[1].status = 413
    /\ \E id \in DOMAIN sessions : Stale(id)
\* C12: the number of chunks computed for a start request of a size > 0 is
\* the least n >= 1 with n * chunk_size >= size, that is ceil(size /
\* chunk_size), where a chunk size of zero (or none) or below is replaced by
\* 1048576 first; a size of 26 with a chunk size of 10 gives 3 chunks, 20
\* with 10 gives 2.
C12_TotalChunksIsCeiling ==
    args[1].op = "start" =>
        LET size == args[1].size
            requested == args[1].chunk_size
            cs == IF requested <= 0 THEN 1048576 ELSE requested
            n == resp[1].total_chunks
        IN  /\ resp[1].chunk_size = cs
            /\ n >= 1
            /\ (n - 1) * cs < size
            /\ size <= n * cs
            /\ (size = 26 /\ requested = 10) => n = 3
            /\ (size = 20 /\ requested = 10) => n = 2

\* The number of chunks of 26 bytes in chunks of 10 was computed, and is 3.
C12_Witness ==
    /\ args[1].op = "start"
    /\ args[1].size = 26
    /\ args[1].chunk_size = 10
    /\ resp[1].total_chunks = 3
\* The chunk files of session id.
ChunkFilesOf(files, id) == {k \in DOMAIN files : k[1] = id}

\* After this step session id is stored as worker p loaded it, and its chunk
\* files are those of the indices received, each with the bytes last
\* answered ok.
Retained(p, id) ==
    LET session == loc[p].session
    IN  /\ id \in DOMAIN sessions'
        /\ \A f \in DOMAIN sessions'[id] : sessions'[id][f] = session[f]
        /\ ChunkFilesOf(chunkFiles', id) =
              {<<id, i>> : i \in Range(session.received_chunks)}
        /\ \A k \in ChunkFilesOf(chunkFiles', id) : chunkFiles'[k] = sent[k]

\* C13: when a complete request is answered ok, the session's row is gone and
\* so are its chunk directory and its chunk files; when it is answered 404,
\* 403 or 409, at once or after the assembly, the registry and the chunk
\* files are as they were when the request arrived.
C13_CompleteDeletesOnlyOnOk ==
    [][\A p \in Procs :
        LET a == args'[p]
            id == a.upload_id
            failed == /\ a.op = "complete"
                      /\ pc'[p] = "done"
                      /\ resp'[p].status \in {404, 403, 409}
        IN  /\ (Answers(p) /\ a.op = "complete" /\ resp'[p].status = 200) =>
                  /\ id \notin DOMAIN sessions'
                  /\ id \notin chunkDirs'
                  /\ ChunkFilesOf(chunkFiles', id) = {}
            /\ (Arrives(p) /\ failed) =>
                  UNCHANGED <<sessions, chunkDirs, chunkFiles>>
            /\ (Answers(p) /\ failed) =>
                  /\ UNCHANGED <<sessions, chunkDirs, chunkFiles>>
                  /\ Retained(p, id)
      ]_vars

\* A complete request for a session with every index received was answered
\* 409 after the assembly (the assembled size is not the session's), and the
\* session is stored with its chunk files.
C13_Witness ==
    \E id \in DOMAIN sessions :
        /\ pc[1] = "done"
        /\ args[1].op = "complete"
        /\ args[1].upload_id = id
        /\ resp[1].status = 409
        /\ Len(sessions[id].received_chunks) = sessions[id].total_chunks
        /\ ChunkFilesOf(chunkFiles, id) # {}
\* C14: when a complete request has been answered - ok, 409 for a chunk file
\* that is absent, 409 for an assembled size that is not the session's, 500
\* for an exception raised while the file is delivered to the slot, or a
\* refusal before the assembly - no temporary file of its session exists.
C14_TempFileRemoved ==
    [][\A p \in Procs :
        (/\ Arrives(p) \/ Answers(p)
         /\ args'[p].op = "complete"
         /\ pc'[p] = "done")
        => args'[p].upload_id \notin DOMAIN tmpFiles']_vars

\* A complete request was answered 500, the delivery to the slot having
\* raised after the assembly, and its session has no temporary file.
C14_Witness ==
    /\ pc[1] = "done"
    /\ args[1].op = "complete"
    /\ resp[1].status = 500
    /\ args[1].upload_id \in DOMAIN sessions
    /\ args[1].upload_id \notin DOMAIN tmpFiles
\* Worker p has assembled its session: every chunk file of the indices
\* 0..total_chunks-1 is there and the temporary file has total_size bytes.
Verified(p) ==
    LET session == loc[p].session
    IN  /\ \A i \in Indexes(session) : <<session.id, i>> \in DOMAIN chunkFiles
        /\ session.id \in DOMAIN tmpFiles
        /\ Len(tmpFiles[session.id]) = session.total_size

\* C15: a step of a complete request changes a share row or the storage only
\* when every chunk file was found and the assembled file has total_size
\* bytes; and when a complete request is answered 409 after the assembly,
\* the share rows (file, text, updated_at) and the storage are as when the
\* request arrived, and so are the session's row and chunk files.
C15_DeliversOnlyVerified ==
    [][\A p \in Procs :
        LET a == args[p]
        IN  /\ (/\ a.op = "complete"
                 /\ pc[p] \notin {"idle", "done"}
                 /\ slots' # slots) => Verified(p)
            /\ (Answers(p) /\ a.op = "complete" /\ resp'[p].status = 409) =>
                  /\ slots' = loc[p].slot
                  /\ Retained(p, a.upload_id)
      ]_vars

\* A complete request for a session with every index received was answered
\* 409 after the assembly while the slot of its caller held the file of an
\* earlier upload, which is still stored.
C15_Witness ==
    \E id \in DOMAIN sessions :
        /\ pc[1] = "done"
        /\ args[1].op = "complete"
        /\ args[1].upload_id = id
        /\ resp[1].status = 409
        /\ Len(sessions[id].received_chunks) = sessions[id].total_chunks
        /\ shares[args[1].caller].file \in DOMAIN storage
\* Session id is stored, with its chunk directory and chunk files, after this
\* step as before it.
Kept(id) ==
    /\ id \in DOMAIN sessions'
    /\ sessions'[id] = sessions[id]
    /\ (id \in chunkDirs') = (id \in chunkDirs)
    /\ ChunkFilesOf(chunkFiles', id) = ChunkFilesOf(chunkFiles, id)
    /\ \A k \in ChunkFilesOf(chunkFiles, id) : chunkFiles'[k] = chunkFiles[k]

\* C16: the time to live of upload sessions being positive, and t the time a
\* start request arrives: (1) no step of its sweep touches a session with
\* updated_at >= t - TTL; (2) when the sweep is over no session with
\* updated_at < t - TTL is stored, and no chunk directory or chunk file is
\* left of a session that is not stored; (3) a start request that names a
\* session with updated_at < t - TTL and matches it is answered with a
\* session just created, under an id not given out before, with no index
\* received.
C16_SweepOfOutlived ==
    [][\A p \in Procs :
        LET a == args'[p]
            t == loc'[p].at
            TTL == DSHARE_UPLOAD_SESSION_TTL_SECONDS
            sweeping == /\ a.op = "start"
                        /\ pc[p] # "done"
                        /\ pc'[p] \notin {"idle", "done"}
            named == loc[p].named
        IN  TTL > 0 =>
            /\ sweeping =>
                  \A id \in DOMAIN sessions :
                      sessions[id].updated_at >= t - TTL => Kept(id)
            /\ (sweeping /\ pc'[p] = "start_lookup") =>
                  /\ \A id \in DOMAIN sessions' :
                        sessions'[id].updated_at >= t - TTL
                  /\ \A id \in SessionIds \ DOMAIN sessions' :
                        /\ id \notin chunkDirs'
                        /\ ChunkFilesOf(chunkFiles', id) = {}
            /\ (/\ Answers(p)
                 /\ a.op = "start"
                 /\ Matches(a, named)
                 /\ named.updated_at < loc[p].at - TTL) =>
                  /\ resp'[p].status = 200
                  /\ resp'[p].upload_id = issued + 1
                  /\ resp'[p].upload_id # named.id
                  /\ resp'[p].received_chunks = <<>>
                  /\ resp'[p].upload_id \in DOMAIN sessions'
                  /\ sessions'[resp'[p].upload_id].received_chunks = <<>>
                  /\ named.id \notin DOMAIN sessions'
                  /\ named.id \notin chunkDirs'
      ]_vars

\* The sweep of a start request is over: the session the request named and
\* matches, which had a chunk received and had outlived the time to live
\* when the request arrived, is no longer stored and has no chunk directory,
\* while another session, which had not outlived it, is stored.
C16_Witness ==
    LET named == loc[1].named
    IN  /\ pc[1] = "start_lookup"
        /\ Matches(args[1], named)
        /\ named.received_chunks # <<>>
        /\ named.updated_at < loc[1].at - DSHARE_UPLOAD_SESSION_TTL_SECONDS
        /\ named.id \notin DOMAIN sessions
        /\ named.id \notin chunkDirs
        /\ \E id \in DOMAIN sessions :
              sessions[id].updated_at >=
                  loc[1].at - DSHARE_UPLOAD_SESSION_TTL_SECONDS
\* The scopes whose share row has a file.
Holding == {s \in Callers : shares[s].file # NoFile}

\* The storage holds the files of the share rows and nothing else, and no
\* two rows have the same file.
Tidy ==
    /\ DOMAIN storage = {shares[s].file : s \in Holding}
    /\ \A s, t \in Holding : s # t => shares[s].file # shares[t].file

\* C17: requests being served one at a time, (1) when the file of a share row
\* changes - to the file of a whole-file upload or of a complete, or to none
\* by a text upload, a clear or the expiry - the file it had is no longer in
\* the storage, and (2) whenever no request is under way the storage holds,
\* for every slot, the file its row has and no other.
C17_OneBlobPerSlot ==
    [][/\ \A s \in Callers :
            (shares[s].file # NoFile /\ shares'[s].file # shares[s].file)
                => shares[s].file \notin DOMAIN storage'
       /\ (\A p \in Procs : pc'[p] \in {"idle", "done"}) => Tidy'
      ]_vars

\* A whole-file upload to a slot that holds a file is under way: the file
\* the slot's row has is deleted from the storage, the new one is not yet
\* stored.
C17_Witness ==
    /\ pc[1] = "upload_store"
    /\ args[1].op = "upload"
    /\ shares[args[1].caller].file # NoFile
    /\ shares[args[1].caller].file \notin DOMAIN storage
\* C18: in every state, whatever the interleaving of whole-file uploads, text
\* uploads, completes, clears and expiries on a slot, no share row has both
\* a file and a text.
C18_FileOrText ==
    \A s \in Callers : ~(shares[s].file # NoFile /\ shares[s].text # NoText)

\* The public slot holds a text while worker 1 is about to save the row with
\* the file of a whole-file upload and worker 2 serves another write of the
\* slot.
C18_Witness ==
    /\ pc[1] = "upload_save"
    /\ args[1].body # NoChunk
    /\ loc[1].share.file \in DOMAIN storage
    /\ shares[Anon].text = "hi"
    /\ pc[2] \notin {"idle", "done"}
    /\ args[2].op \in {"upload", "clear"}
\* The time to live of the slot of scope s.
SlotTTL(s) ==
    IF s = Anon THEN DSHARE_PUBLIC_TTL_SECONDS ELSE DSHARE_USER_TTL_SECONDS

\* The share row of scope s is stored and has outlived its time to live.
Outlived(s) ==
    /\ SlotTTL(s) > 0
    /\ shares[s].exists
    /\ now - shares[s].updated_at > SlotTTL(s)

\* C19: the times to live of the slots being positive, a download, a
\* share-text and an upload request on arrival, and a complete request before
\* it delivers, (1) begin the expiry of a row with now - updated_at > TTL
\* before anything else, (2) leave a stored row with now - updated_at <= TTL
\* and the storage as they are; (3) the expiry leaves the row without file
\* and text and the file it had out of the storage; (4) a read answered with
\* a file or a text is answered with that of a row with
\* now - updated_at <= TTL.
C19_LazyExpiry ==
    [][\A p \in Procs :
        LET a == args'[p]
            s == a.caller
            entering ==
                \/ Arrives(p) /\ a.op \in {"download", "text", "upload"}
                \/ pc[p] = "complete_share" /\ pc'[p] # "complete_share"
            expiring == pc'[p] \in {"expire_delete", "expire_save"}
        IN  /\ (entering /\ Outlived(s)) =>
                  /\ expiring
                  /\ storage' = storage
                  /\ pc'[p] = "expire_save" => shares[s].file = NoFile
            /\ (entering /\ shares[s].exists /\ ~Outlived(s)) =>
                  /\ ~expiring
                  /\ slots' = slots
            /\ (pc[p] = "expire_save" /\ pc'[p] # "expire_save") =>
                  /\ shares'[s].file = NoFile
                  /\ shares'[s].text = NoText
                  /\ shares[s].file \notin DOMAIN storage'
            /\ (/\ a.op \in {"download", "text"}
                /\ pc[p] # "done" /\ pc'[p] = "done"
                /\ (resp'[p].file # NoFile
                      \/ resp'[p].text \notin {NoText, ""}))
                => /\ shares'[s].exists
                   /\ now' - shares'[s].updated_at <= SlotTTL(s)
                   /\ resp'[p].file = shares'[s].file
                   /\ resp'[p].file = NoFile =>
                          resp'[p].text = shares'[s].text
      ]_vars

\* A download by user 1 is under way: the user's slot had a file and had
\* outlived its time to live, the file is deleted from the storage, the row
\* is about to be saved without it.
C19_Witness ==
    /\ pc[1] = "expire_save"
    /\ args[1].op = "download"
    /\ args[1].caller = 1
    /\ Outlived(1)
    /\ shares[1].file # NoFile
    /\ shares[1].file \notin DOMAIN storage
\* The slot of scope s - its row and, when the row has a file, the bytes of
\* that file in the storage - is after this step as before it.
SlotKept(s) ==
    /\ shares'[s] = shares[s]
    /\ shares[s].file \in DOMAIN storage =>
          /\ shares[s].file \in DOMAIN storage'
          /\ storage'[shares[s].file] = storage[shares[s].file]

\* C20: every step of a request - an upload, a text, a clear, a read, a
\* complete - leaves the slot of every scope but its caller's as it is; a
\* complete answered ok was sent by the scope that owns the session; and a
\* read is answered with the file or the text of the row of its caller's
\* scope, a file no other row has.
C20_ScopesApart ==
    [][\A p \in Procs :
        LET a == args'[p]
        IN  /\ (pc[p] # "done" /\ pc'[p] # "idle") =>
                  \A s \in Callers \ {a.caller} : SlotKept(s)
            /\ (Answers(p) /\ a.op = "complete" /\ resp'[p].status = 200) =>
                  OwnerScope(loc[p].session) = a.caller
            /\ (/\ a.op \in {"download", "text"}
                /\ pc[p] # "done" /\ pc'[p] = "done") =>
                  /\ a.op = "download" =>
                        resp'[p].file = shares'[a.caller].file
                  /\ resp'[p].file # NoFile =>
                        \A s \in Callers \ {a.caller} :
                            shares'[s].file # resp'[p].file
                  /\ resp'[p].text \notin {NoText, ""} =>
                        resp'[p].text = shares'[a.caller].text
      ]_vars

\* The complete of a session of user 1 was answered ok while the public slot
\* and the slot of user 2 each held a file: the three files are stored.
C20_Witness ==
    /\ pc[1] = "done"
    /\ args[1].op = "complete"
    /\ args[1].caller = 1
    /\ resp[1].status = 200
    /\ \A s \in Callers : shares[s].file \in DOMAIN storage
    /\ storage[shares[1].file] = <<1>>
    /\ storage[shares[2].file] = <<2>>

\* The steps that write the row of scope s: the save of an upload, of a
\* complete, of a clear and of the expiry, by a request of scope s.
Writes(s) ==
    \E p \in Procs :
        /\ args[p].caller = s
        /\ pc[p] \in {"upload_save", "complete_save_share", "clear_save",
                      "expire_save"}
        /\ pc'[p] # pc[p]

\* A text upload is answered ok in this step and leaves the row of its scope
\* with the text of the request and without a file, the file the row had out
\* of the storage; and the text of a row changes only when the row is written.
TextStored ==
    /\ \A p \in Procs :
          (/\ pc[p] = "upload_save" /\ pc'[p] = "done"
           /\ args[p].body = NoChunk) =>
              /\ resp'[p].status = 200
              /\ shares'[args[p].caller].text = args[p].text
              /\ shares'[args[p].caller].file = NoFile
              /\ shares[args[p].caller].file \notin DOMAIN storage'
    /\ \A s \in Callers : shares'[s].text # shares[s].text => Writes(s)

\* Worker p answers a download in this step, the row of its scope holding a
\* text and no file and not having outlived its time to live.
ReadsText(p) ==
    /\ args'[p].op = "download"
    /\ pc[p] # "done" /\ pc'[p] = "done"
    /\ shares[args'[p].caller].exists
    /\ ~Outlived(args'[p].caller)
    /\ shares[args'[p].caller].file = NoFile
    /\ shares[args'[p].caller].text # NoText

\* C21 as the specification states it: requests being served one at a time,
\* a text upload answered ok leaves the row with its text and without a file,
\* and until the row is written or has outlived its time to live a download of
\* the scope is answered with that text as text/plain, whatever the text.
C21_TextRoundTrip ==
    [][/\ TextStored
       /\ \A p \in Procs :
             ReadsText(p) =>
                 /\ resp'[p].status = 200
                 /\ resp'[p].file = NoFile
                 /\ resp'[p].text = shares[args'[p].caller].text
      ]_vars

\* C21, amended: the same for every text but the empty one; a download of a
\* row with the empty text is answered as one of an empty slot, without a
\* text.
C21_TextRoundTripNonEmpty ==
    [][/\ TextStored
       /\ \A p \in Procs :
             ReadsText(p) =>
                 /\ resp'[p].status = 200
                 /\ resp'[p].file = NoFile
                 /\ resp'[p].text =
                        IF shares[args'[p].caller].text = "" THEN NoText
                        ELSE shares[args'[p].caller].text
      ]_vars

\* A download by user 1 is answered with the text "hi" of the user's row,
\* which has no file, while the public slot holds a file.
C21_Witness ==
    /\ pc[1] = "done"
    /\ args[1].op = "download"
    /\ args[1].caller = 1
    /\ resp[1].status = 200
    /\ resp[1].text = "hi"
    /\ shares[1].text = "hi"
    /\ shares[1].file = NoFile
    /\ shares[Anon].file \in DOMAIN storage

\* Every index of session id is in its received list, and the chunk files
\* are as long as the chunks of total_size bytes cut at multiples of
\* chunk_size.
Filled(id) ==
    /\ Range(sessions[id].received_chunks) = Indexes(sessions[id])
    /\ \A i \in Indexes(sessions[id]) :
          /\ _upload_chunk_path(id, i) \in DOMAIN chunkFiles
          /\ Len(chunkFiles[_upload_chunk_path(id, i)]) = CutLen(sessions[id], i)

\* C22: requests being served one at a time, (1) a complete answered 409 with
\* a list of missing indices leaves the row of the session, with its received
\* list, and the chunk files as they are, and the list is of the indices the
\* received list lacks; (2) a chunk upload answered ok adds its index to the
\* received list and takes none away, so that the list is complete once
\* every missing index was uploaded; (3) a complete of the owner that arrives
\* once every index is received, the chunks being those of total_size bytes
\* cut at multiples of chunk_size, is accepted and answered ok.
C22_ConflictIsRetryable ==
    [][\A p \in Procs :
        LET a == args'[p]
            id == a.upload_id
            stored == id \in DOMAIN sessions
            ready == /\ a.op = "complete"
                     /\ stored
                     /\ OwnerScope(sessions[id]) = a.caller
                     /\ Filled(id)
        IN  /\ (/\ Arrives(p) /\ a.op = "complete"
                /\ resp'[p].status = 409
                /\ resp'[p].missing_chunks # <<>>) =>
                  /\ stored
                  /\ sessions' = sessions
                  /\ disk' = disk
                  /\ Range(resp'[p].missing_chunks) =
                        Indexes(sessions[id])
                            \ Range(sessions[id].received_chunks)
            /\ (/\ Answers(p) /\ a.op = "chunk"
                /\ resp'[p].status = 200) =>
                  /\ stored
                  /\ Range(sessions'[id].received_chunks) =
                        Range(sessions[id].received_chunks) \cup {a.index}
                  /\ _upload_chunk_path(id, a.index) \in DOMAIN chunkFiles'
            /\ Arrives(p) /\ ready => pc'[p] = "complete_open"
            /\ Answers(p) /\ ready => resp'[p].status = 200
      ]_vars

\* A complete was answered 409 for a session of three chunks of which the
\* first and the last were uploaded: index 1 is listed as missing, the row
\* and the two chunk files are kept.
C22_Witness ==
    LET id == args[1].upload_id
    IN  /\ pc[1] = "done"
        /\ args[1].op = "complete"
        /\ resp[1].status = 409
        /\ resp[1].missing_chunks = <<1>>
        /\ id \in DOMAIN sessions
        /\ sessions[id].received_chunks = <<0, 2>>
        /\ {_upload_chunk_path(id, 0), _upload_chunk_path(id, 2)}
              \subseteq DOMAIN chunkFiles

\* The email of the user of username user is not verified.
Unverified(user) ==
    user \notin DOMAIN profiles \/ profiles[user].email_verified_at = Never

\* secret is the password of the user of username user, or the user's PIN.
RightSecret(user, secret) ==
    \/ check_password(secret, users[user].password)
    \/ /\ user \in DOMAIN profiles
       /\ check_password(secret, profiles[user].pin_hash)

\* C23: (1) the step of api_auth_password_login that logs a user in is taken
\* for a user whose profile has email_verified_at, and no other step of a
\* login request changes who is logged in; (2) a login request for a user
\* without email_verified_at is not answered ok and leaves the browser's
\* session as it is, and it is answered 403 when the user is active and the
\* secret is the user's password or PIN.
C23_LoginNeedsVerifiedEmail ==
    [][\A p \in Procs :
        LET a == args'[p]
            user == Normal(a.email)
        IN  /\ (a.op = "login" /\ logins' # logins) =>
                  /\ pc[p] = "login_session"
                  /\ ~Unverified(loc[p].auth_user)
                  /\ loc[p].auth_user = user
            /\ (/\ Answers(p) /\ a.op = "login"
                /\ user \in DOMAIN users
                /\ Unverified(user)) =>
                  /\ resp'[p].status # 200
                  /\ logins' = logins
                  /\ logins[a.client] # user
                  /\ (users[user].is_active /\ RightSecret(user, a.secret))
                        => resp'[p].status = 403
      ]_vars

\* A login with the password of an account that has one and whose profile has
\* no email_verified_at was answered 403; the browser is not logged in.
C23_Witness ==
    /\ pc[1] = "done"
    /\ args[1].op = "login"
    /\ args[1].secret = "pw"
    /\ Normal(args[1].email) \in DOMAIN users
    /\ users[Normal(args[1].email)].password = make_password("pw")
    /\ Unverified(Normal(args[1].email))
    /\ resp[1].status = 403
    /\ logins[args[1].client] = NoUser

\* Token t is unknown, was used, or is older than the maximum age.
Spent(t) ==
    \/ t \notin DOMAIN tokens
    \/ tokens[t].used_at # Never
    \/ DSHARE_EMAIL_TOKEN_MAX_AGE_SECONDS <= 0
    \/ now - tokens[t].created_at > DSHARE_EMAIL_TOKEN_MAX_AGE_SECONDS

\* C24: a verify request with a token that is unknown, was used or is older
\* than the maximum age is answered at once with the redirect to the home
\* page and changes nothing: no user, profile or token row (email_verified_at,
\* password, PIN, pending hashes, used_at) and no browser's login; and a
\* verify request goes on to its writes only with a token that is none of
\* these.
C24_SpentTokenChangesNothing ==
    [][\A p \in Procs :
        LET a == args'[p]
        IN  /\ (Arrives(p) /\ a.op = "verify" /\ Spent(a.token)) =>
                  /\ pc'[p] = "done"
                  /\ resp'[p].status = 302
                  /\ resp'[p].location = "home"
                  /\ auth' = auth
            /\ (Arrives(p) /\ a.op = "verify" /\ pc'[p] # "done") =>
                  /\ ~Spent(a.token)
                  /\ auth' = auth
      ]_vars

\* A verify request with a token older than the maximum age, unused and with
\* its pending hashes, was answered with the redirect to the home page: the
\* user's email is not verified and the browser is not logged in.
C24_Witness ==
    LET t == args[1].token
    IN  /\ pc[1] = "done"
        /\ args[1].op = "verify"
        /\ t \in DOMAIN tokens
        /\ tokens[t].used_at = Never
        /\ now - tokens[t].created_at > DSHARE_EMAIL_TOKEN_MAX_AGE_SECONDS
        /\ tokens[t].pending_password_hash # NoHash
        /\ Unverified(tokens[t].user)
        /\ users[tokens[t].user].password = UnusablePassword
        /\ resp[1].location = "home"
        /\ logins[args[1].client] = NoUser

\* C25: (1) no step of a register request changes the password of a user
\* that exists or any profile that exists; the user it creates has an
\* unusable password and the profile it creates no PIN and no
\* email_verified_at; the token it creates is for the user of the request's
\* email and holds the hashes of the request's password and PIN; (2) the
\* password of a user and the PIN of a profile that exist change only in the
\* steps of a verify request that apply the pending hashes of its token, to
\* the user of that token, the token having been unused and not older than
\* the maximum age when the request arrived.
C25_RegisterPendsCredentials ==
    [][/\ \A p \in Procs :
            LET a == args'[p]
                t == loc[p].token_obj
            IN  /\ a.op = "register" =>
                      /\ \A u \in DOMAIN users : users'[u] = users[u]
                      /\ \A u \in DOMAIN users' \ DOMAIN users :
                            /\ u = Normal(a.email)
                            /\ users'[u].password = UnusablePassword
                            /\ \A s \in Secrets :
                                  ~check_password(s, users'[u].password)
                      /\ \A u \in DOMAIN profiles : profiles'[u] = profiles[u]
                      /\ \A u \in DOMAIN profiles' \ DOMAIN profiles :
                            profiles'[u] = NoProfile
                      /\ \A k \in DOMAIN tokens' \ DOMAIN tokens :
                            /\ tokens'[k].user = Normal(a.email)
                            /\ tokens'[k].used_at = Never
                            /\ check_password(a.password,
                                              tokens'[k].pending_password_hash)
                            /\ tokens'[k].pending_pin_hash =
                                  IF a.pin = "" THEN NoHash
                                  ELSE make_password(a.pin)
                /\ (Arrives(p) /\ a.op = "verify" /\ pc'[p] # "done") =>
                      ~Spent(a.token)
                /\ (/\ a.op # "none"
                    /\ \E u \in DOMAIN users :
                          users'[u].password # users[u].password) =>
                      /\ pc[p] = "verify_password"
                      /\ t.token = a.token
                      /\ users'[t.user].password = t.pending_password_hash
                      /\ \A u \in DOMAIN users \ {t.user} :
                            users'[u] = users[u]
                /\ (/\ a.op # "none"
                    /\ \E u \in DOMAIN profiles :
                          profiles'[u].pin_hash # profiles[u].pin_hash) =>
                      /\ pc[p] = "verify_pin"
                      /\ t.token = a.token
                      /\ profiles'[t.user].pin_hash = t.pending_pin_hash
                      /\ \A u \in DOMAIN profiles \ {t.user} :
                            profiles'[u] = profiles[u]
       /\ (\A p \in Procs : args'[p].op = "none") =>
              /\ \A u \in DOMAIN users : users'[u] = users[u]
              /\ \A u \in DOMAIN profiles : profiles'[u] = profiles[u]
      ]_vars

\* A register request with the password "1234" and the PIN "pw" for an
\* account that has the password "pw" and no PIN was answered ok: the account
\* has its password and no PIN, the token holds the hashes.
C25_Witness ==
    LET u == Normal(args[1].email)
    IN  /\ pc[1] = "done"
        /\ args[1].op = "register"
        /\ args[1].password = "1234"
        /\ args[1].pin = "pw"
        /\ resp[1].status = 200
        /\ users[u].password = make_password("pw")
        /\ profiles[u].pin_hash = NoHash
        /\ \E k \in DOMAIN tokens :
              /\ tokens[k].user = u
              /\ tokens[k].used_at = Never
              /\ tokens[k].pending_password_hash = make_password("1234")
              /\ tokens[k].pending_pin_hash = make_password("pw")

\* C26: in every state, the received indices of every stored session are
\* integers from 0 up to its total_chunks (excluded), and its total_chunks is
\* the least n >= 1 with n * chunk_size >= total_size, that is
\* max(1, ceil(total_size / chunk_size)), also after a start that resumes it.
C26_ReceivedInRange ==
    \A id \in DOMAIN sessions :
        LET s == sessions[id]
            n == s.total_chunks
        IN  /\ \A i \in Range(s.received_chunks) : i \in Int /\ 0 <= i /\ i < n
            /\ n >= 1
            /\ n * s.chunk_size >= s.total_size
            /\ n > 1 => (n - 1) * s.chunk_size < s.total_size

\* A start has resumed a session of three bytes in chunks of two, whose last
\* chunk is stored.
C26_Witness ==
    \E p \in Procs :
        /\ pc[p] = "done"
        /\ args[p].op = "start"
        /\ resp[p].status = 200
        /\ resp[p].upload_id = args[p].upload_id
        /\ resp[p].upload_id \in DOMAIN sessions
        /\ LET s == sessions[resp[p].upload_id]
           IN  /\ s.total_size = 3 /\ s.chunk_size = 2
               /\ s.total_chunks = 2
               /\ s.received_chunks = <<1>>

\* C27: every step that leaves the row of a session stored leaves its
\* received indices a superset of what they were, whatever chunk uploads and
\* resuming starts are served at once.
C27_ReceivedGrows ==
    [][\A id \in DOMAIN sessions \cap DOMAIN sessions' :
          Range(sessions[id].received_chunks)
              \subseteq Range(sessions'[id].received_chunks)]_vars

\* The chunk file of every index the row of session id lists is on the disk.
Backed(id) ==
    \A i \in Range(sessions[id].received_chunks) :
        _upload_chunk_path(id, i) \in DOMAIN chunkFiles

\* C28: whenever no request is under way (and so, the claim says, in every
\* state), the chunk file of every index in the received indices of every
\* stored session is on the disk, whatever chunk uploads, starts with their
\* sweep and complete requests were served at once; and a complete request
\* that has passed the test of the missing indices finds every chunk file it
\* looks for.
C28_ReceivedHaveBlobs ==
    /\ [](Between => \A id \in DOMAIN sessions : Backed(id))
    /\ [][\A p \in Procs :
            (pc[p] = "complete_copy" /\ pc'[p] # "complete_copy") =>
                _upload_chunk_path(loc[p].session.id, loc[p].index)
                    \in DOMAIN chunkFiles]_vars

\* C29: whenever no request is under way, every chunk file on the disk is in
\* the directory of a session whose row is stored, whatever chunk uploads
\* were served at once with a complete request or with the sweep of a start
\* request.
C29_NoChunksWithoutRow ==
    Between => \A k \in DOMAIN chunkFiles : k[1] \in DOMAIN sessions

\* C30: the sessions whose chunk directories the sweep of a start request
\* removes are the sessions whose rows are deleted: when the sweep's deletion
\* of rows is over, the row of no session whose directory it has removed is
\* still stored, whatever chunk upload, resuming start or other sweep was
\* served between the removal of the files and the deletion of the rows.
C30_SweepRemovesWhatItDeletes ==
    [][\A p \in Procs :
        (pc[p] = "sweep_delete" /\ pc'[p] # "sweep_delete") =>
            loc[p].swept \cap DOMAIN sessions' = {}]_vars

\* The chunk file the loop of the complete request of worker p looks for next
\* is not on the disk.
Absent(p) ==
    /\ pc[p] = "complete_copy"
    /\ _upload_chunk_path(loc[p].session.id, loc[p].index)
          \notin DOMAIN chunkFiles

\* C31: a complete request that has passed the test of the missing indices
\* and does not find a chunk file leaves the loop for the finally block with
\* the status 409; until then and from then on its steps change neither the
\* slots, nor the storage, nor the session rows, nor the chunk files; its last
\* step removes its temporary file and answers 409.
C31_AbsentBlobConflict ==
    [][\A p \in Procs :
        LET id == loc[p].session.id
            moves == pc'[p] # pc[p] \/ loc'[p] # loc[p]
        IN  /\ (Absent(p) /\ moves) =>
                  /\ pc'[p] = "complete_rm_tmp"
                  /\ loc'[p].status = 409
                  /\ ~loc'[p].completed
            /\ (/\ moves
                /\ \/ pc[p] \in {"complete_open", "complete_copy"}
                   \/ pc[p] = "complete_rm_tmp" /\ loc[p].status = 409) =>
                  /\ UNCHANGED <<slots, sessions, chunkDirs, chunkFiles>>
            /\ (/\ pc[p] = "complete_rm_tmp" /\ loc[p].status = 409
                /\ pc'[p] # pc[p]) =>
                  /\ pc'[p] = "done"
                  /\ resp'[p].status = 409
                  /\ id \notin DOMAIN tmpFiles'
      ]_vars

\* A complete request for a session of two chunks, both received, was
\* answered 409 without missing indices: the file of chunk 0 is not on the
\* disk; the row, the file of chunk 1 and the empty slot are as they were,
\* the temporary file is gone.
C31_Witness ==
    \E p \in Procs :
        LET id == args[p].upload_id
        IN  /\ pc[p] = "done"
            /\ args[p].op = "complete"
            /\ resp[p].status = 409
            /\ resp[p].missing_chunks = <<>>
            /\ id \in DOMAIN sessions
            /\ sessions[id].received_chunks = <<0, 1>>
            /\ _upload_chunk_path(id, 0) \notin DOMAIN chunkFiles
            /\ _upload_chunk_path(id, 1) \in DOMAIN chunkFiles
            /\ id \notin DOMAIN tmpFiles
            /\ shares[Anon].file = NoFile

\* C32: when the storage or the database refuses what a complete request
\* delivers to the slot, the request being the only one served, the slot holds
\* the file or the text it held when the request arrived, that file is in the
\* storage with its bytes, and the session row and its chunk files are as the
\* request loaded them, so that the request can be sent again.
C32_StoreFailureKeepsSlot ==
    [][\A p \in Procs :
        LET id == loc[p].session.id
            scope == args[p].caller
            before == loc[p].slot[1][scope]
            stored == loc[p].slot[2]
        IN  (/\ pc[p] = "complete_rm_tmp"
             /\ loc[p].status = 500
             /\ pc'[p] = "done") =>
                /\ resp'[p].status = 500
                /\ shares'[scope].file = before.file
                /\ shares'[scope].text = before.text
                /\ before.file # NoFile =>
                      /\ before.file \in DOMAIN storage'
                      /\ storage'[before.file] = stored[before.file]
                /\ Retained(p, id)
      ]_vars

\* C33: whenever no request is under way, whatever two writes of a slot
\* (whole-file upload, text upload, complete, clear) were served at once, the
\* storage holds the file the row of each slot has and no other file: no file
\* is left that no row names, and no row names a file that was deleted.
C33_TwoWritersOneBlob ==
    Between => Tidy

\* C34: a chunk file is never seen cut short: whenever no request is under
\* way every chunk file on the disk is a body a client sent, whole, and every
\* chunk file a complete request copies is one, whatever chunk upload is
\* served at the same time.
C34_ChunkFilesWhole ==
    /\ [](Between => \A k \in DOMAIN chunkFiles : chunkFiles[k] \in Bodies)
    /\ [][\A p \in Procs :
            LET key == _upload_chunk_path(loc[p].session.id, loc[p].index)
            IN  (/\ pc[p] = "complete_copy"
                 /\ loc'[p] # loc[p]
                 /\ key \in DOMAIN chunkFiles) =>
                    chunkFiles[key] \in Bodies]_vars

\* The chunk files of the stored sessions whose index is below the last one
\* are no longer than chunk_size.
NonFinalFit ==
    \A k \in DOMAIN chunkFiles :
        (k[1] \in DOMAIN sessions /\ k[2] < sessions[k[1]].total_chunks - 1)
            => Len(chunkFiles[k]) <= sessions[k[1]].chunk_size

C36_ClientEventuallyCompletes ==
    <>(/\ pc[1] = "done"
       /\ args[1].op = "complete"
       /\ resp[1].status = 200)

\* The client's chunk upload is under way while the sweep of a start request
\* of user 1 is about to remove the files of a session that outlived the time
\* to live.
C36_Witness ==
    /\ pc[1] \in {"chunk_mkdir", "chunk_open", "chunk_write", "chunk_save"}
    /\ args[1].caller = Anon
    /\ pc[2] = "sweep_rmtree"
    /\ args[2].caller = 1
    /\ loc[2].expired # <<>>

\* The upload limit of the scope that owns a session.
Limit(session) ==
    IF session.is_public THEN DSHARE_PUBLIC_MAX_UPLOAD_BYTES
    ELSE DSHARE_USER_MAX_UPLOAD_BYTES

\* C37: the total_size of every stored session is within the upload limit of
\* its scope, and when a complete request is answered ok, requests being
\* served one at a time, the file of the slot has exactly total_size bytes:
\* no file a complete request delivers is larger than the limit of the scope.
C37_DeliveredWithinLimit ==
    /\ [](\A id \in DOMAIN sessions :
            /\ sessions[id].total_size >= 1
            /\ sessions[id].total_size <= Limit(sessions[id]))
    /\ [][\A p \in Procs :
            LET session == loc[p].session
                file == shares'[args[p].caller].file
            IN  (/\ args[p].op = "complete"
                 /\ pc[p] # "done" /\ pc'[p] = "done"
                 /\ resp'[p].status = 200) =>
                    /\ file \in DOMAIN storage'
                    /\ Len(storage'[file]) = session.total_size
                    /\ Len(storage'[file]) <= Limit(session)
          ]_vars

\* A complete request of user 1 was answered ok and delivered a file of three
\* bytes, the limit of the authenticated callers, which is above the limit of
\* the anonymous caller.
C37_Witness ==
    \E p \in Procs :
        /\ pc[p] = "done"
        /\ args[p].op = "complete"
        /\ args[p].caller = 1
        /\ resp[p].status = 200
        /\ shares[1].file \in DOMAIN storage
        /\ Len(storage[shares[1].file]) = DSHARE_USER_MAX_UPLOAD_BYTES
        /\ DSHARE_USER_MAX_UPLOAD_BYTES > DSHARE_PUBLIC_MAX_UPLOAD_BYTES

\* C38: requests being served one at a time, (1) a chunk upload answered ok
\* and a start that resumes a session leave the session's updated_at equal
\* to the current time; (2) no step lowers the updated_at of a stored
\* session; (3) no step of a start request and of its sweep deletes the row
\* or removes a chunk file of a session whose updated_at is not older than
\* the time to live.
C38_RefreshedSessionsSurvive ==
    [][/\ \A p \in Procs :
            (/\ pc[p] \in {"chunk_save", "start_resume"}
             /\ pc'[p] = "done"
             /\ resp'[p].status = 200) =>
                sessions'[loc[p].session.id].updated_at = now
       /\ \A id \in DOMAIN sessions \cap DOMAIN sessions' :
            sessions'[id].updated_at >= sessions[id].updated_at
       /\ \A p \in Procs : \A id \in DOMAIN sessions :
            (/\ args'[p].op = "start"
             /\ pc'[p] # pc[p]
             /\ DSHARE_UPLOAD_SESSION_TTL_SECONDS > 0
             /\ sessions[id].updated_at >=
                    now - DSHARE_UPLOAD_SESSION_TTL_SECONDS) =>
                /\ id \in DOMAIN sessions'
                /\ (id \in chunkDirs) = (id \in chunkDirs')
                /\ \A k \in ChunkFilesOf(chunkFiles, id) :
                      k \in DOMAIN chunkFiles' /\ chunkFiles'[k] = chunkFiles[k]
      ]_vars

\* At time 2 the sweep of a start request is over; a session whose chunk was
\* received at time 1 is stored with its chunk file.
C38_Witness ==
    \E id \in DOMAIN sessions :
        /\ pc[1] = "start_lookup"
        /\ loc[1].at = 2
        /\ now = 2
        /\ sessions[id].received_chunks # <<>>
        /\ sessions[id].updated_at = 1
        /\ ChunkFilesOf(chunkFiles, id) # {}

\* C39: (1) every stored session has an id that start has issued, and a
\* step stores no session under an issued id that is not stored, so the id
\* of a deleted row never comes back, whatever the requests in flight loaded
\* before the deletion; (2) a chunk upload and a complete that arrive naming
\* an issued id whose row is not stored are answered not found.
C39_DeletedRowsStayDeleted ==
    /\ [](DOMAIN sessions \subseteq 1..issued)
    /\ [][/\ \A id \in (1..issued) \ DOMAIN sessions :
                id \notin DOMAIN sessions'
          /\ \A p \in Procs :
                (/\ Arrives(p)
                 /\ args'[p].op \in {"chunk", "complete"}
                 /\ args'[p].upload_id \in (1..issued) \ DOMAIN sessions) =>
                    /\ pc'[p] = "done"
                    /\ resp'[p].status = 404
         ]_vars

\* A chunk upload that loaded the row has reached its save after the row
\* was deleted: it is answered with a server error and the row is not stored.
C39_Witness ==
    \E p \in Procs :
        /\ pc[p] = "done"
        /\ args[p].op = "chunk"
        /\ resp[p].status = 500
        /\ args[p].upload_id \in (1..issued) \ DOMAIN sessions

====
